---- MODULE Spec2Model ----
(***************************************************************************)
(* biosim-server: verification of simulator agreement.                     *)
(*                                                                         *)
(* The model covers the request handlers of api/main.py, the activities    *)
(* of workflows/simulate/biosim_activities.py with the REST client they    *)
(* call, and the record types of biosim_runs/models.py.  Strings are       *)
(* sequences of one-character strings, so that str.split and the `in`      *)
(* test of the handler are computed and not assumed.  An Optional value is *)
(* a sequence of length 0 (None) or 1.                                     *)
(***************************************************************************)
EXTENDS Integers, Sequences, FiniteSets, TLC

(* ---------------------------------------------------------------------- *)
(* Bounds of the model                                                     *)
(* ---------------------------------------------------------------------- *)
MaxStrLen == 3
MaxCatalog == 2
NumRequests == 2
MaxAttempts == 3
MaxPolls == 2
NumSimulators == 3
NumCalls == 2
MaxTicks == 4

(* ---------------------------------------------------------------------- *)
(* Strings and the simulator catalog                                       *)
(* ---------------------------------------------------------------------- *)
Chars == {"a", "b", "1", "2", ":"}
COLON == ":"

SeqsUpTo(S, n) == UNION {[1..k -> S] : k \in 0..n}

Strings == SeqsUpTo(Chars, MaxStrLen)

SimulatorIds == {<<"a">>, <<"b">>}
SimulatorVersionStrings == {<<"1">>, <<"2">>}
ImageDigests == {"sha256:d1", "sha256:d2"}

\* BiosimulatorVersion: the fields the handlers and the cache key read.
BiosimulatorVersion == [id : SimulatorIds, version : SimulatorVersionStrings,
                        image_digest : ImageDigests]

Catalogs == SeqsUpTo(BiosimulatorVersion, MaxCatalog)

\* `":" in simulator`
Contains(s, c) == \E i \in 1..Len(s) : s[i] = c

\* str.split(sep) for a one-character separator: the pieces between the
\* separators, empty pieces kept; a string without separator is one piece.
RECURSIVE split(_, _)
split(s, sep) ==
    IF ~Contains(s, sep) THEN <<s>>
    ELSE LET k == CHOOSE i \in 1..Len(s) :
                      s[i] = sep /\ \A j \in 1..(i - 1) : s[j] # sep
         IN  <<SubSeq(s, 1, k - 1)>> \o split(SubSeq(s, k + 1, Len(s)), sep)

\* A slip of the loop below: the version is not compared.
loop_name_version_ignores_version(all, name, version, i) ==
    IF \E k \in i..Len(all) : all[k].id = name
    THEN <<all[CHOOSE k \in i..Len(all) :
                 all[k].id = name /\ \A j \in i..(k - 1) : all[j].id # name]>>
    ELSE <<>>

\* for sv in all_simulator_versions: if sv.id == name and sv.version == version:
\*     simulator_version = sv; break
RECURSIVE loop_name_version(_, _, _, _)
loop_name_version(all, name, version, i) ==
    IF i > Len(all) THEN <<>>
    ELSE IF all[i].id = name /\ all[i].version = version THEN <<all[i]>>
    ELSE loop_name_version(all, name, version, i + 1)

\* A slip of the loop below: it stops at the first match.
loop_name_only_breaks(all, simulator, i, acc) ==
    IF \E k \in i..Len(all) : all[k].id = simulator
    THEN <<all[CHOOSE k \in i..Len(all) :
                 all[k].id = simulator /\ \A j \in i..(k - 1) : all[j].id # simulator]>>
    ELSE acc

\* for sv in all_simulator_versions: if sv.id == simulator: simulator_version = sv
\* (no break: the last match is kept)
RECURSIVE loop_name_only(_, _, _, _)
loop_name_only(all, simulator, i, acc) ==
    IF i > Len(all) THEN acc
    ELSE loop_name_only(all, simulator, i + 1,
                        IF all[i].id = simulator THEN <<all[i]>> ELSE acc)

\* One iteration of `for simulator in simulators` of verify_omex: the
\* Optional simulator_version it ends with, or the exception it raises.
\* `name, version = simulator.split(":")` raises ValueError unless the split
\* has exactly two pieces.
resolve_simulator(all, simulator) ==
    IF Contains(simulator, COLON)
    THEN LET parts == split(simulator, COLON)
         IN  IF Len(parts) # 2
             THEN [kind |-> "ValueError", sv |-> <<>>]
             ELSE LET found == loop_name_version(all, parts[1], parts[2], 1)
                  IN  IF found # <<>> THEN [kind |-> "resolved", sv |-> found]
                      ELSE [kind |-> "HTTPException400", sv |-> <<>>]
    ELSE LET found == loop_name_only(all, simulator, 1, <<>>)
         IN  IF found # <<>> THEN [kind |-> "resolved", sv |-> found]
             ELSE [kind |-> "HTTPException400", sv |-> <<>>]

\* The body of `for simulator in simulators` run over the list from position
\* i with the list simulator_versions built so far: the first simulator that
\* does not resolve ends the handler with its exception.
RECURSIVE resolve_loop(_, _, _, _)
resolve_loop(all, simulators, i, simulator_versions) ==
    IF i > Len(simulators)
    THEN [kind |-> "resolved", simulator_versions |-> simulator_versions]
    ELSE LET r == resolve_simulator(all, simulators[i])
         IN  IF r.kind = "resolved"
             THEN resolve_loop(all, simulators, i + 1, simulator_versions \o r.sv)
             ELSE [kind |-> r.kind, simulator_versions |-> <<>>]

(* ---------------------------------------------------------------------- *)
(* Requests and their inputs                                               *)
(* ---------------------------------------------------------------------- *)
Requests == 1..NumRequests

\* Uploaded archives (their bytes) and the MD5 of each; two of the archives
\* collide.
UploadedFiles == {"omex_A", "omex_B", "omex_C", "omex_A2"}
hash_bytes_md5(bytes) ==
    CASE bytes = "omex_B" -> "md5_B"
      [] bytes = "omex_C" -> "md5_C"
      [] OTHER -> "md5_A"

\* Simulator strings of a request: by name, name:version, unknown, malformed.
SimulatorLists ==
    { <<(<<"a">>)>>,
      <<(<<"a">>), (<<"b", ":", "1">>)>>,
      <<(<<"b", ":", "2">>)>>,
      <<(<<"a">>), (<<"1">>)>>,
      <<(<<"a", ":", "1", ":", "2">>)>>,
      <<(<<"b", ":", "1">>), (<<"a", ":", "1", ":", "2">>)>> }

\* The catalogs the handlers are run against.
ApiCatalogs ==
    { <<[id |-> <<"a">>, version |-> <<"1">>, image_digest |-> "sha256:d1"],
        [id |-> <<"a">>, version |-> <<"2">>, image_digest |-> "sha256:d2"],
        [id |-> <<"b">>, version |-> <<"1">>, image_digest |-> "sha256:d1"]>>,
      <<[id |-> <<"b">>, version |-> <<"2">>, image_digest |-> "sha256:d2"]>> }
CacheBusters == {"0", "1"}
WorkflowIdPrefixes == {"omex-verification-", "runs-verification-"}

\* The run id lists of verify_runs; the handler takes any list: two orders of
\* the same ids, an id given twice, one id.
RunIdLists == {<<"run_1", "run_2">>, <<"run_2", "run_1">>, <<"run_1", "run_1">>, <<"run_1">>}

NewRequest == [pc |-> "new", uploaded_file |-> "", file_hash_md5 |-> "",
               omex_file |-> <<>>,
               found |-> FALSE, uploads |-> 0, inserts |-> 0,
               simulators |-> <<>>, simulator_versions |-> <<>>,
               response |-> "none", workflow_id |-> <<>>,
               workflow_id_prefix |-> "", endpoint |-> "",
               biosimulations_run_ids |-> <<>>]

(* ---------------------------------------------------------------------- *)
(* State                                                                   *)
(* ---------------------------------------------------------------------- *)
VARIABLES
    all_simulator_versions,  \* the catalog get_simulator_versions returns
    simulator,               \* the simulator string being resolved
    resolution,              \* <<>> before, <<result>> after the resolution
    request,                 \* the verify_omex calls in progress, by request
    omex_database,           \* the OmexFile documents, in insertion order
    storage,                 \* the paths of the objects of the file service
    workflows,               \* the workflows started, in start order
    next_uuid,               \* the next value of uuid.uuid4()
    poll,                    \* the get_sim_run activity of one run and its caller
    remote,                  \* the status requests the remote has answered
    sim,                     \* the simulation workflows, one per slot
    run_store,               \* the BiosimulatorWorkflowRun documents, in insertion order
    remote_runs,             \* the simulations submitted to the remote, in order
    verification,            \* the state of one verification workflow
    held,                    \* the states the verification workflow has held
    observed,                \* the states the status queries have returned
    clock,                   \* the time of the event loop, in seconds
    memory_cache,            \* the entry of get_simulation_versions in SimpleMemoryCache
    version_calls,           \* the calls of get_simulation_versions, by call
    upstream,                \* the requests the simulator catalog has answered, in order
    fetch,                   \* the get_hdf5_metadata or get_hdf5_data activity of one run
    compare,                 \* one comparison of two values
    submit,                  \* the submit_biosim_sim activity of one run
    local_files,             \* the paths of the files on the worker's disk
    status_response          \* the last response of get_verify_output

vars == <<all_simulator_versions, simulator, resolution, request, omex_database,
          storage, workflows, next_uuid, poll, remote, sim, run_store, remote_runs,
          verification, held, observed, clock, memory_cache, version_calls, upstream,
          fetch, compare, submit, local_files, status_response>>

resolve_vars == <<simulator, resolution>>
api_vars == <<request, omex_database, storage, workflows, next_uuid>>
poll_vars == <<poll, remote>>
wf_vars == <<sim, run_store, remote_runs, verification>>
query_vars == <<held, observed>>
catalog_vars == <<clock, memory_cache, version_calls, upstream>>
data_vars == <<fetch>>
compare_vars == <<compare>>
submit_vars == <<submit, local_files>>
status_vars == <<status_response>>

\* The slots of the simulation workflows: one per request when requests
\* start them singly, one per simulator under one verification.
SimSlots == 1..(IF NumRequests > NumSimulators THEN NumRequests ELSE NumSimulators)

IdleSim == [pc |-> "idle", file_hash_md5 |-> "", image_digest |-> "", cache_buster |-> "",
            status |-> "", cached |-> {}, reused |-> <<>>, submissions |-> 0,
            biosim_run_id |-> 0, polls |-> 0, timed_out |-> FALSE]

WfIdle ==
    /\ sim = [w \in SimSlots |-> IdleSim]
    /\ run_store = <<>>
    /\ remote_runs = <<>>
    /\ verification = [status |-> "none", children |-> {}, report |-> <<>>]

ResolveIdle == simulator = <<>> /\ resolution = <<>>
ApiIdle ==
    /\ request = [r \in Requests |-> NewRequest]
    /\ omex_database = <<>>
    /\ storage = {}
    /\ workflows = <<>>
    /\ next_uuid = 1
PollIdle ==
    /\ poll = [pc |-> "idle", biosim_run_id |-> "", abort_on_not_found |-> "False",
               attempt |-> 0, polls |-> 0, answer |-> <<>>, requests |-> 0,
               result |-> <<>>, error |-> <<>>]
    /\ remote = [status_requests |-> 0, not_found_reported |-> FALSE,
                 requests_after_not_found |-> 0]
QueryIdle == held = {} /\ observed = {}
CatalogIdle ==
    /\ clock = 0
    /\ memory_cache = <<>>
    /\ version_calls = <<>>
    /\ upstream = <<>>
DataIdle == fetch = <<>>
CompareIdle == compare = <<>>
SubmitIdle == submit = <<>> /\ local_files = {}
StatusIdle == status_response = <<>>

(* ---------------------------------------------------------------------- *)
(* Resolution of one simulator string                                      *)
(* ---------------------------------------------------------------------- *)
InitResolve ==
    /\ all_simulator_versions \in Catalogs
    /\ simulator \in Strings
    /\ resolution = <<>>
    /\ ApiIdle
    /\ PollIdle
    /\ WfIdle
    /\ QueryIdle
    /\ CatalogIdle
    /\ DataIdle
    /\ CompareIdle
    /\ SubmitIdle
    /\ StatusIdle

Resolve ==
    /\ resolution = <<>>
    /\ resolution' = <<resolve_simulator(all_simulator_versions, simulator)>>
    /\ UNCHANGED <<all_simulator_versions, simulator, api_vars, poll_vars, wf_vars,
                   query_vars, catalog_vars, data_vars, compare_vars, submit_vars, status_vars>>

NextResolve == Resolve

SpecResolve == InitResolve /\ [][NextResolve]_vars

(* ---------------------------------------------------------------------- *)
(* Content store: get_cached_omex_file_from_upload                         *)
(* ---------------------------------------------------------------------- *)
\* The documents of the database with the given hash.
find_omex_file(db, file_hash_md5) ==
    {i \in 1..Len(db) : db[i].file_hash_md5 = file_hash_md5}

\* A path that also depends on the upload: one object per upload.
omex_storage_path_per_upload(file_hash_md5, uploaded_file) ==
    <<"omex", file_hash_md5, uploaded_file>>

\* The storage path of an archive is derived from its hash alone.
omex_storage_path(file_hash_md5, uploaded_file) == <<"omex", file_hash_md5, "">>

\* An insert without the comparison: a second document for the hash.
insert_omex_file_unconditional(db, omex_file) == Append(db, omex_file)

\* The insert is a compare-and-swap keyed on the hash: a duplicate insert
\* leaves the database as it is and counts as success.
insert_omex_file(db, omex_file) ==
    IF find_omex_file(db, omex_file.file_hash_md5) # {} THEN db
    ELSE Append(db, omex_file)

\* Step 1: hash the uploaded bytes and look the hash up; a record found is
\* returned unchanged.
OmexFind(r, uploaded_file) ==
    /\ request[r].pc = "new"
    /\ LET h == hash_bytes_md5(uploaded_file)
           hits == find_omex_file(omex_database, h)
       IN  request' = [request EXCEPT ![r] =
             IF hits # {}
             THEN [@ EXCEPT !.pc = "have_omex", !.file_hash_md5 = h, !.found = TRUE,
                            !.omex_file = <<omex_database[CHOOSE i \in hits : TRUE]>>]
             ELSE [@ EXCEPT !.pc = "omex_miss", !.file_hash_md5 = h,
                            !.uploaded_file = uploaded_file]]
    /\ UNCHANGED <<all_simulator_versions, resolve_vars, omex_database, storage,
                   workflows, next_uuid,
                   poll_vars, wf_vars,
                   query_vars, catalog_vars, data_vars, compare_vars, submit_vars, status_vars>>

\* Step 2 (miss): the bytes are written to storage under the hash-derived path.
OmexUpload(r) ==
    /\ request[r].pc = "omex_miss"
    /\ storage' = storage \cup {omex_storage_path(request[r].file_hash_md5,
                                               request[r].uploaded_file)}
    /\ request' = [request EXCEPT ![r].pc = "omex_uploaded", ![r].uploads = @ + 1]
    /\ UNCHANGED <<all_simulator_versions, resolve_vars, omex_database, workflows,
                   next_uuid,
                   poll_vars, wf_vars,
                   query_vars, catalog_vars, data_vars, compare_vars, submit_vars, status_vars>>

\* Step 3 (miss): the record is inserted; the record of the hash is returned.
OmexInsert(r) ==
    /\ request[r].pc = "omex_uploaded"
    /\ LET h == request[r].file_hash_md5
           doc == [file_hash_md5 |-> h,
                   storage_path |-> omex_storage_path(h, request[r].uploaded_file),
                   inserted_by |-> r]
           db == insert_omex_file(omex_database, doc)
       IN  /\ omex_database' = db
           /\ request' = [request EXCEPT ![r] =
                [@ EXCEPT !.pc = "have_omex",
                          !.inserts = @ + (Len(db) - Len(omex_database)),
                          !.uploaded_file = "",
                          !.omex_file = <<db[CHOOSE i \in find_omex_file(db, h) : TRUE]>>]]
    /\ UNCHANGED <<all_simulator_versions, resolve_vars, storage, workflows, next_uuid,
                   poll_vars, wf_vars,
                   query_vars, catalog_vars, data_vars, compare_vars, submit_vars, status_vars>>

(* ---------------------------------------------------------------------- *)
(* verify_omex                                                             *)
(* ---------------------------------------------------------------------- *)
\* Lines 141-160: the catalog is read and every requested simulator resolved;
\* HTTPException(400) for the first one not found, ValueError for the first
\* one whose split has not two pieces.
VerifyOmexResolve(r, simulators) ==
    /\ request[r].pc = "have_omex"
    /\ LET res == resolve_loop(all_simulator_versions, simulators, 1, <<>>)
       IN  request' = [request EXCEPT ![r] =
             [@ EXCEPT !.simulators = simulators,
                       !.simulator_versions = res.simulator_versions,
                       !.pc = IF res.kind = "resolved" THEN "resolved" ELSE "raised",
                       !.response = IF res.kind = "resolved" THEN "none" ELSE res.kind]]
    /\ UNCHANGED <<all_simulator_versions, resolve_vars, omex_database, storage,
                   workflows, next_uuid,
                   poll_vars, wf_vars,
                   query_vars, catalog_vars, data_vars, compare_vars, submit_vars, status_vars>>

\* A workflow id that does not depend on the uuid drawn.
make_workflow_id_without_uuid(workflow_id_prefix, uuid4) == <<workflow_id_prefix, 0>>

\* Lines 162 and 243: f"{workflow_id_prefix}{uuid.uuid4()}".
make_workflow_id(workflow_id_prefix, uuid4) == <<workflow_id_prefix, uuid4>>

\* Lines 162-190: the workflow id is the prefix and a fresh uuid; the workflow
\* is started with the archive, the resolved simulators and the cache buster,
\* and the PENDING output is returned.
VerifyOmexStart(r, workflow_id_prefix, cache_buster) ==
    /\ request[r].pc = "resolved"
    /\ LET workflow_id == make_workflow_id(workflow_id_prefix, next_uuid)
       IN  /\ workflows' = Append(workflows,
                 [id |-> workflow_id,
                  workflow |-> "OmexVerifyWorkflow",
                  omex_file |-> request[r].omex_file,
                  requested_simulators |-> request[r].simulator_versions,
                  biosimulations_run_ids |-> <<>>,
                  cache_buster |-> cache_buster,
                  started_by |-> r])
           /\ request' = [request EXCEPT ![r].pc = "returned",
                                         ![r].response = "PENDING",
                                         ![r].workflow_id = workflow_id,
                                         ![r].workflow_id_prefix = workflow_id_prefix,
                                         ![r].endpoint = "verify_omex"]
    /\ next_uuid' = next_uuid + 1
    /\ UNCHANGED <<all_simulator_versions, resolve_vars, omex_database, storage,
                   poll_vars, wf_vars,
                   query_vars, catalog_vars, data_vars, compare_vars, submit_vars, status_vars>>

\* A list of run ids with the repeated ids dropped, first occurrences kept.
RECURSIVE deduplicated(_)
deduplicated(ids) ==
    IF ids = <<>> THEN <<>>
    ELSE LET front == deduplicated(SubSeq(ids, 1, Len(ids) - 1))
             last == ids[Len(ids)]
         IN  IF \E i \in 1..Len(front) : front[i] = last THEN front
             ELSE Append(front, last)

\* A slip of the input below: the run ids are deduplicated.
RunsVerifyWorkflowInput_deduplicated(biosimulations_run_ids) ==
    deduplicated(biosimulations_run_ids)

\* Lines 247-248: RunsVerifyWorkflowInput(biosimulations_run_ids=...), the
\* list of the request as it is.
RunsVerifyWorkflowInput(biosimulations_run_ids) == biosimulations_run_ids

\* verify_runs, lines 243-271: no check of the run ids; the workflow id is the
\* prefix and a fresh uuid, RunsVerifyWorkflow is started with the run ids and
\* the PENDING output is returned.
VerifyRuns(r, workflow_id_prefix, biosimulations_run_ids) ==
    /\ request[r].pc = "new"
    /\ LET workflow_id == make_workflow_id(workflow_id_prefix, next_uuid)
       IN  /\ workflows' = Append(workflows,
                 [id |-> workflow_id,
                  workflow |-> "RunsVerifyWorkflow",
                  omex_file |-> <<>>,
                  requested_simulators |-> <<>>,
                  biosimulations_run_ids |->
                      RunsVerifyWorkflowInput(biosimulations_run_ids),
                  cache_buster |-> "",
                  started_by |-> r])
           /\ request' = [request EXCEPT ![r].pc = "returned",
                                         ![r].response = "PENDING",
                                         ![r].workflow_id = workflow_id,
                                         ![r].workflow_id_prefix = workflow_id_prefix,
                                         ![r].endpoint = "verify_runs",
                                         ![r].biosimulations_run_ids =
                                             biosimulations_run_ids]
    /\ next_uuid' = next_uuid + 1
    /\ UNCHANGED <<all_simulator_versions, resolve_vars, omex_database, storage,
                   poll_vars, wf_vars, query_vars, catalog_vars, data_vars, compare_vars, submit_vars, status_vars>>

Init ==
    /\ all_simulator_versions \in ApiCatalogs
    /\ ResolveIdle
    /\ ApiIdle
    /\ PollIdle
    /\ WfIdle
    /\ QueryIdle
    /\ CatalogIdle
    /\ DataIdle
    /\ CompareIdle
    /\ SubmitIdle
    /\ StatusIdle

Next ==
    \E r \in Requests :
        \/ \E uploaded_file \in UploadedFiles : OmexFind(r, uploaded_file)
        \/ OmexUpload(r)
        \/ OmexInsert(r)
        \/ \E simulators \in SimulatorLists : VerifyOmexResolve(r, simulators)
        \/ \E p \in WorkflowIdPrefixes, cache_buster \in CacheBusters :
               VerifyOmexStart(r, p, cache_buster)
        \/ \E p \in WorkflowIdPrefixes, ids \in RunIdLists : VerifyRuns(r, p, ids)

Spec == Init /\ [][Next]_vars

\* The content store alone: uploads in any interleaving.
NextStore ==
    \E r \in Requests :
        \/ \E uploaded_file \in UploadedFiles : OmexFind(r, uploaded_file)
        \/ OmexUpload(r)
        \/ OmexInsert(r)

InitStore ==
    /\ all_simulator_versions = <<>>
    /\ ResolveIdle
    /\ ApiIdle
    /\ PollIdle
    /\ WfIdle
    /\ QueryIdle
    /\ CatalogIdle
    /\ DataIdle
    /\ CompareIdle
    /\ SubmitIdle
    /\ StatusIdle

SpecStore == InitStore /\ [][NextStore]_vars

(* ---------------------------------------------------------------------- *)
(* Run status: BiosimServiceRest.get_sim_run and the get_sim_run activity  *)
(* ---------------------------------------------------------------------- *)
RunIds == {"run_1", "run_2"}

\* GetSimRunInput.abort_on_not_found: Optional[bool] = False
AbortOnNotFound == {"True", "False", "None"}
Truthy(b) == b = "True"

\* BiosimSimulationRunStatus; the remote reports every member but
\* RUN_ID_NOT_FOUND, which only the activity produces.
BiosimSimulationRunStatus ==
    {"CREATED", "QUEUED", "RUNNING", "SKIPPED", "PROCESSING", "SUCCEEDED", "FAILED",
     "RUN_ID_NOT_FOUND", "UNKNOWN"}
RemoteStatuses == BiosimSimulationRunStatus \ {"RUN_ID_NOT_FOUND"}

\* What GET /runs/{id} can answer: 200 with a status (one of the enumeration
\* or a text outside it), an error status, or no answer at all (http 0).
RemoteAnswers ==
    [http : {200}, status : {"RUNNING", "SUCCEEDED", "FAILED", "NOT_A_STATUS"}]
    \cup [http : {400, 404, 500, 0}, status : {""}]

NoRun == <<>>

\* Lines 22-37 of the REST client: one GET, raise_for_status, then the record
\* built from the JSON; BiosimSimulationRunStatus(text) raises ValueError for
\* a text outside the enumeration.
rest_get_sim_run(simulation_run_id, answer) ==
    IF answer.http = 0
    THEN [kind |-> "raise", error |-> "ClientConnectionError", status |-> 0, run |-> NoRun]
    ELSE IF answer.http >= 400
    THEN [kind |-> "raise", error |-> "ClientResponseError", status |-> answer.http,
          run |-> NoRun]
    ELSE IF answer.status \notin BiosimSimulationRunStatus
    THEN [kind |-> "raise", error |-> "ValueError", status |-> 0, run |-> NoRun]
    ELSE [kind |-> "return", error |-> "", status |-> 0,
          run |-> <<[id |-> simulation_run_id, name |-> "remote_name",
                     simulator |-> "remote_simulator", simulatorVersion |-> "remote_version",
                     status |-> answer.status]>>]

\* A slip of the activity below: the flag is not read and every error is raised.
get_sim_run_always_raises(get_sim_run_input, answer) ==
    rest_get_sim_run(get_sim_run_input.biosim_run_id, answer)

\* A slip of the activity below: the flag is read the wrong way round.
get_sim_run_flag_inverted(get_sim_run_input, answer) ==
    LET r == rest_get_sim_run(get_sim_run_input.biosim_run_id, answer)
    IN  IF r.kind = "raise" /\ r.error = "ClientResponseError" /\ r.status = 404
           /\ ~Truthy(get_sim_run_input.abort_on_not_found)
        THEN [kind |-> "return", error |-> "", status |-> 0,
              run |-> <<[id |-> get_sim_run_input.biosim_run_id, name |-> "",
                         simulator |-> "", simulatorVersion |-> "",
                         status |-> "RUN_ID_NOT_FOUND"]>>]
        ELSE r

\* A slip of the activity below: with the flag set every error status is
\* taken for not found.
get_sim_run_any_status_not_found(get_sim_run_input, answer) ==
    LET r == rest_get_sim_run(get_sim_run_input.biosim_run_id, answer)
    IN  IF r.kind = "raise" /\ r.error = "ClientResponseError"
           /\ Truthy(get_sim_run_input.abort_on_not_found)
        THEN [kind |-> "return", error |-> "", status |-> 0,
              run |-> <<[id |-> get_sim_run_input.biosim_run_id, name |-> "",
                         simulator |-> "", simulatorVersion |-> "",
                         status |-> "RUN_ID_NOT_FOUND"]>>]
        ELSE r

\* Lines 20-39 of the activity: the record of the REST client, or for a
\* ClientResponseError of status 404 with abort_on_not_found set the
\* RUN_ID_NOT_FOUND record; every other error is raised again.
get_sim_run(get_sim_run_input, answer) ==
    LET r == rest_get_sim_run(get_sim_run_input.biosim_run_id, answer)
    IN  IF r.kind = "raise" /\ r.error = "ClientResponseError" /\ r.status = 404
           /\ Truthy(get_sim_run_input.abort_on_not_found)
        THEN [kind |-> "return", error |-> "", status |-> 0,
              run |-> <<[id |-> get_sim_run_input.biosim_run_id, name |-> "",
                         simulator |-> "", simulatorVersion |-> "",
                         status |-> "RUN_ID_NOT_FOUND"]>>]
        ELSE r

\* The statuses after which a run is not polled again.
TerminalStatuses == {"SUCCEEDED", "FAILED", "RUN_ID_NOT_FOUND", "SKIPPED"}

\* The caller schedules the activity for a run id.
ScheduleGetSimRun(biosim_run_id, abort_on_not_found) ==
    /\ poll.pc = "idle"
    /\ poll' = [poll EXCEPT !.pc = "scheduled", !.biosim_run_id = biosim_run_id,
                            !.abort_on_not_found = abort_on_not_found]
    /\ UNCHANGED <<all_simulator_versions, resolve_vars, api_vars, remote, wf_vars,
                   query_vars, catalog_vars, data_vars, compare_vars, submit_vars, status_vars>>

\* One execution of the activity: the first, or the substrate's retry of an
\* execution that raised.
GetSimRunAttempt(answer) ==
    /\ poll.pc \in {"scheduled", "failed"}
    /\ poll.attempt < MaxAttempts
    /\ LET out == get_sim_run([biosim_run_id |-> poll.biosim_run_id,
                               abort_on_not_found |-> poll.abort_on_not_found], answer)
       IN  poll' = [poll EXCEPT !.pc = IF out.kind = "return" THEN "completed" ELSE "failed",
                                !.attempt = @ + 1,
                                !.answer = <<answer>>,
                                !.requests = 1,
                                !.result = out.run,
                                !.error = IF out.kind = "raise"
                                          THEN <<[error |-> out.error, status |-> out.status]>>
                                          ELSE <<>>]
    /\ remote' = [status_requests |-> remote.status_requests + 1,
                  not_found_reported |-> remote.not_found_reported \/ answer.http = 404,
                  requests_after_not_found |->
                      remote.requests_after_not_found
                        + (IF remote.not_found_reported THEN 1 ELSE 0)]
    /\ UNCHANGED <<all_simulator_versions, resolve_vars, api_vars, wf_vars,
                   query_vars, catalog_vars, data_vars, compare_vars, submit_vars, status_vars>>

\* The caller polls again while the status returned is not terminal.
PollAgain ==
    /\ poll.pc = "completed"
    /\ poll.result[1].status \notin TerminalStatuses
    /\ poll.polls < MaxPolls
    /\ poll' = [poll EXCEPT !.pc = "scheduled", !.attempt = 0, !.polls = @ + 1]
    /\ UNCHANGED <<all_simulator_versions, resolve_vars, api_vars, remote, wf_vars,
                   query_vars, catalog_vars, data_vars, compare_vars, submit_vars, status_vars>>

InitPoll ==
    /\ all_simulator_versions = <<>>
    /\ ResolveIdle
    /\ ApiIdle
    /\ PollIdle
    /\ WfIdle
    /\ QueryIdle
    /\ CatalogIdle
    /\ DataIdle
    /\ CompareIdle
    /\ SubmitIdle
    /\ StatusIdle

NextPoll ==
    \/ \E id \in RunIds, abort \in AbortOnNotFound : ScheduleGetSimRun(id, abort)
    \/ \E answer \in RemoteAnswers : GetSimRunAttempt(answer)
    \/ PollAgain

SpecPoll == InitPoll /\ [][NextPoll]_vars

(* ---------------------------------------------------------------------- *)
(* Simulation workflow: cache lookup, submission, polling, save            *)
(* ---------------------------------------------------------------------- *)
FileHashes == {"md5_A", "md5_B"}

\* A key that also holds the workflow id: no two workflows share a key.
cache_key_with_workflow_id(run) ==
    <<run.file_hash_md5, run.image_digest, run.cache_buster, run.workflow_id>>

\* A key without the cache buster.
cache_key_without_cache_buster(run) == <<run.file_hash_md5, run.image_digest, "">>

\* BiosimulatorWorkflowRun: the three fields a run is cached under.
cache_key(run) == <<run.file_hash_md5, run.image_digest, run.cache_buster>>

\* The BiosimulatorWorkflowRun of a simulation workflow.
WorkflowRun(w) ==
    [workflow_id |-> w, file_hash_md5 |-> sim[w].file_hash_md5,
     image_digest |-> sim[w].image_digest, cache_buster |-> sim[w].cache_buster,
     biosim_run |-> [id |-> sim[w].biosim_run_id, status |-> sim[w].status]]

\* The documents of the store a workflow may reuse: those of its key whose
\* run succeeded.
lookup_run(store, run) ==
    {i \in 1..Len(store) : /\ cache_key(store[i]) = cache_key(run)
                           /\ store[i].biosim_run.status = "SUCCEEDED"}

\* The save is a compare-and-swap keyed on the cache key: the first document
\* of a key stays.
save_run(store, run) ==
    IF \E i \in 1..Len(store) : cache_key(store[i]) = cache_key(run) THEN store
    ELSE Append(store, run)

\* A request starts a simulation workflow for an archive, a simulator image
\* and a cache buster.
SimStart(w, file_hash_md5, image_digest, cache_buster) ==
    /\ w \in 1..NumRequests
    /\ verification.status = "none"
    /\ sim[w].pc = "idle"
    /\ sim' = [sim EXCEPT ![w] = [@ EXCEPT !.pc = "NOT_STARTED",
                                           !.file_hash_md5 = file_hash_md5,
                                           !.image_digest = image_digest,
                                           !.cache_buster = cache_buster]]
    /\ UNCHANGED <<all_simulator_versions, resolve_vars, api_vars, poll_vars, run_store,
                   remote_runs, verification,
                   query_vars, catalog_vars, data_vars, compare_vars, submit_vars, status_vars>>

\* NOT_STARTED: the store is asked for a succeeded run of the key; one found
\* is the workflow's result, and nothing is submitted.
SimLookup(w) ==
    /\ sim[w].pc = "NOT_STARTED"
    /\ LET hits == lookup_run(run_store, WorkflowRun(w))
           cached == {i \in 1..Len(run_store) :
                        /\ run_store[i].file_hash_md5 = sim[w].file_hash_md5
                        /\ run_store[i].image_digest = sim[w].image_digest
                        /\ run_store[i].cache_buster = sim[w].cache_buster
                        /\ run_store[i].biosim_run.status = "SUCCEEDED"}
       IN  sim' = [sim EXCEPT ![w] =
             IF hits # {}
             THEN LET found == run_store[CHOOSE i \in hits : TRUE]
                  IN  [@ EXCEPT !.pc = "done", !.cached = cached, !.reused = <<found>>,
                                !.status = found.biosim_run.status,
                                !.biosim_run_id = found.biosim_run.id]
             ELSE [@ EXCEPT !.pc = "SUBMITTING", !.cached = cached]]
    /\ UNCHANGED <<all_simulator_versions, resolve_vars, api_vars, poll_vars, run_store,
                   remote_runs, verification,
                   query_vars, catalog_vars, data_vars, compare_vars, submit_vars, status_vars>>

\* SUBMITTED: the remote accepts the simulation.
SimSubmit(w) ==
    /\ sim[w].pc = "SUBMITTING"
    /\ remote_runs' = Append(remote_runs,
                             [file_hash_md5 |-> sim[w].file_hash_md5,
                              image_digest |-> sim[w].image_digest,
                              cache_buster |-> sim[w].cache_buster,
                              submitted_by |-> w])
    /\ sim' = [sim EXCEPT ![w] = [@ EXCEPT !.pc = "POLLING", !.status = "RUNNING",
                                           !.submissions = @ + 1,
                                           !.biosim_run_id = Len(remote_runs) + 1]]
    /\ UNCHANGED <<all_simulator_versions, resolve_vars, api_vars, poll_vars, run_store,
                   verification,
                   query_vars, catalog_vars, data_vars, compare_vars, submit_vars, status_vars>>

\* POLLING: the remote reports a terminal status; a succeeded run is saved next.
SimPollTerminal(w, status) ==
    /\ sim[w].pc = "POLLING"
    /\ sim' = [sim EXCEPT ![w] = [@ EXCEPT !.status = status,
                                           !.pc = IF status = "SUCCEEDED" THEN "saving"
                                                  ELSE "done"]]
    /\ UNCHANGED <<all_simulator_versions, resolve_vars, api_vars, poll_vars, run_store,
                   remote_runs, verification,
                   query_vars, catalog_vars, data_vars, compare_vars, submit_vars, status_vars>>

\* The succeeded run is saved for reuse.
SimSave(w) ==
    /\ sim[w].pc = "saving"
    /\ run_store' = save_run(run_store, WorkflowRun(w))
    /\ sim' = [sim EXCEPT ![w].pc = "done"]
    /\ UNCHANGED <<all_simulator_versions, resolve_vars, api_vars, poll_vars, remote_runs,
                   verification,
                   query_vars, catalog_vars, data_vars, compare_vars, submit_vars, status_vars>>

PollOutcomes == {"SUCCEEDED", "FAILED", "RUN_ID_NOT_FOUND"}

SimStep(w) ==
    \/ SimLookup(w)
    \/ SimSubmit(w)
    \/ \E status \in PollOutcomes : SimPollTerminal(w, status)
    \/ SimSave(w)

InitSim ==
    /\ all_simulator_versions = <<>>
    /\ ResolveIdle
    /\ ApiIdle
    /\ PollIdle
    /\ WfIdle
    /\ QueryIdle
    /\ CatalogIdle
    /\ DataIdle
    /\ CompareIdle
    /\ SubmitIdle
    /\ StatusIdle

NextSim ==
    \E w \in SimSlots :
        \/ \E h \in FileHashes, d \in ImageDigests, c \in CacheBusters : SimStart(w, h, d, c)
        \/ SimLookup(w)
        \/ SimSubmit(w)
        \/ \E status \in PollOutcomes : SimPollTerminal(w, status)
        \/ SimSave(w)

SpecSim == InitSim /\ [][NextSim]_vars

(* ---------------------------------------------------------------------- *)
(* Verification workflow: dispatch, join, report                           *)
(* ---------------------------------------------------------------------- *)
Children == 1..NumSimulators

\* The report of a verification: the status of every run, and which runs
\* gave no output to compare.
generate_report(statuses) ==
    [run_status |-> statuses,
     failed |-> {w \in DOMAIN statuses : statuses[w] # "SUCCEEDED"}]

\* An outcome that fails the verification with a failed run.
verification_outcome_fails_on_failed_run(statuses) ==
    IF \E w \in DOMAIN statuses : statuses[w] = "FAILED" THEN "FAILED" ELSE "COMPLETED"

\* The status a verification ends with once all its runs are terminal.
verification_outcome(statuses) == "COMPLETED"

\* The handler has started the workflow: PENDING.
VerifyStartWorkflow ==
    /\ verification.status = "none"
    /\ \A w \in SimSlots : sim[w].pc = "idle"
    /\ verification' = [verification EXCEPT !.status = "PENDING"]
    /\ held' = held \cup {verification'}
    /\ UNCHANGED <<all_simulator_versions, resolve_vars, api_vars, poll_vars, sim,
                   run_store, remote_runs,
                   observed, catalog_vars, data_vars, compare_vars, submit_vars, status_vars>>

\* PENDING -> RUNNING: one simulation workflow per requested simulator.
VerifyDispatch(file_hash_md5, requested_simulators, cache_buster) ==
    /\ verification.status = "PENDING"
    /\ verification' = [verification EXCEPT !.status = "RUNNING", !.children = Children]
    /\ sim' = [w \in SimSlots |->
                 IF w \in Children
                 THEN [IdleSim EXCEPT !.pc = "NOT_STARTED",
                                      !.file_hash_md5 = file_hash_md5,
                                      !.image_digest = requested_simulators[w],
                                      !.cache_buster = cache_buster]
                 ELSE sim[w]]
    /\ held' = held \cup {verification'}
    /\ UNCHANGED <<all_simulator_versions, resolve_vars, api_vars, poll_vars, run_store,
                   remote_runs,
                   observed, catalog_vars, data_vars, compare_vars, submit_vars, status_vars>>

\* A dispatch failure that is taken whatever the status is.
VerifyDispatchFails_in_any_status ==
    /\ verification.status \in {"PENDING", "RUNNING", "COMPLETED"}
    /\ verification' = [verification EXCEPT !.status = "FAILED"]
    /\ held' = held \cup {verification'}
    /\ UNCHANGED <<all_simulator_versions, resolve_vars, api_vars, poll_vars, sim,
                   run_store, remote_runs,
                   observed, catalog_vars, data_vars, compare_vars, submit_vars, status_vars>>

\* PENDING -> FAILED: the request cannot be dispatched.
VerifyDispatchFails ==
    /\ verification.status = "PENDING"
    /\ verification' = [verification EXCEPT !.status = "FAILED"]
    /\ held' = held \cup {verification'}
    /\ UNCHANGED <<all_simulator_versions, resolve_vars, api_vars, poll_vars, sim,
                   run_store, remote_runs,
                   observed, catalog_vars, data_vars, compare_vars, submit_vars, status_vars>>

\* A join that does not wait for the runs.
VerifyJoin_without_barrier ==
    /\ verification.status = "RUNNING"
    /\ LET statuses == [w \in verification.children |-> sim[w].status]
       IN  verification' = [verification EXCEPT
                              !.status = verification_outcome(statuses),
                              !.report = <<generate_report(statuses)>>]
    /\ held' = held \cup {verification'}
    /\ UNCHANGED <<all_simulator_versions, resolve_vars, api_vars, poll_vars, sim,
                   run_store, remote_runs,
                   observed, catalog_vars, data_vars, compare_vars, submit_vars, status_vars>>

\* The join: all runs terminal, the report is made and attached.
VerifyJoin ==
    /\ verification.status = "RUNNING"
    /\ \A w \in verification.children : sim[w].pc = "done"
    /\ LET statuses == [w \in verification.children |-> sim[w].status]
       IN  verification' = [verification EXCEPT
                              !.status = verification_outcome(statuses),
                              !.report = <<generate_report(statuses)>>]
    /\ held' = held \cup {verification'}
    /\ UNCHANGED <<all_simulator_versions, resolve_vars, api_vars, poll_vars, sim,
                   run_store, remote_runs,
                   observed, catalog_vars, data_vars, compare_vars, submit_vars, status_vars>>

InitVerify == InitSim

NextVerify ==
    \/ VerifyStartWorkflow
    \/ \E d \in [Children -> ImageDigests], c \in CacheBusters :
           VerifyDispatch("md5_A", d, c)
    \/ VerifyDispatchFails
    \/ \E w \in SimSlots :
           \/ SimLookup(w)
           \/ SimSubmit(w)
           \/ \E status \in PollOutcomes : SimPollTerminal(w, status)
           \/ SimSave(w)
    \/ VerifyJoin

SpecVerify == InitVerify /\ [][NextVerify]_vars

(* ---------------------------------------------------------------------- *)
(* The polling budget of a run                                             *)
(* ---------------------------------------------------------------------- *)
\* A poll count that starts again when the budget is used up.
SimPollNonTerminal_budget_reset(w) ==
    /\ sim[w].pc = "POLLING"
    /\ sim' = [sim EXCEPT ![w].polls = IF @ < MaxPolls THEN @ + 1 ELSE 0]
    /\ UNCHANGED <<all_simulator_versions, resolve_vars, api_vars, poll_vars, run_store,
                   remote_runs, verification,
                   query_vars, catalog_vars, data_vars, compare_vars, submit_vars, status_vars>>

\* POLLING: the remote reports a status that is not terminal; the poll counts
\* against the budget of the run.
SimPollNonTerminal(w) ==
    /\ sim[w].pc = "POLLING"
    /\ sim[w].polls < MaxPolls
    /\ sim' = [sim EXCEPT ![w].polls = @ + 1]
    /\ UNCHANGED <<all_simulator_versions, resolve_vars, api_vars, poll_vars, run_store,
                   remote_runs, verification,
                   query_vars, catalog_vars, data_vars, compare_vars, submit_vars, status_vars>>

\* POLLING -> FAILED: the budget is used up.
SimPollTimeout(w) ==
    /\ sim[w].pc = "POLLING"
    /\ sim[w].polls = MaxPolls
    /\ sim' = [sim EXCEPT ![w] = [@ EXCEPT !.status = "FAILED", !.pc = "done",
                                           !.timed_out = TRUE]]
    /\ UNCHANGED <<all_simulator_versions, resolve_vars, api_vars, poll_vars, run_store,
                   remote_runs, verification,
                   query_vars, catalog_vars, data_vars, compare_vars, submit_vars, status_vars>>

\* Any step of a run, polls against the budget included.
SimStepBudget(w) ==
    \/ SimStep(w)
    \/ SimPollNonTerminal(w)
    \/ SimPollTimeout(w)

InitVerifyLive == InitVerify

\* The simulators of the verification: all of one image, or the first of
\* one image and the others of another.
RequestedImages ==
    { [w \in Children |-> "sha256:d1"],
      [w \in Children |-> IF w = 1 THEN "sha256:d1" ELSE "sha256:d2"] }

NextVerifyLive ==
    \/ VerifyStartWorkflow
    \/ \E d \in RequestedImages : VerifyDispatch("md5_A", d, "0")
    \/ VerifyDispatchFails
    \/ \E w \in SimSlots :
           \/ SimLookup(w)
           \/ SimSubmit(w)
           \/ \E status \in PollOutcomes : SimPollTerminal(w, status)
           \/ SimSave(w)
           \/ SimPollNonTerminal(w)
           \/ SimPollTimeout(w)
    \/ VerifyJoin

\* Every run that can take a step takes one in the end, and so does the join.
SpecVerifyLive ==
    /\ InitVerifyLive
    /\ [][NextVerifyLive]_vars
    /\ \A w \in SimSlots : WF_vars(SimStepBudget(w))
    /\ WF_vars(VerifyJoin)

(* ---------------------------------------------------------------------- *)
(* Status query: get_verify_output                                         *)
(* ---------------------------------------------------------------------- *)
\* A query handler that reads the status now and the report before it was
\* attached.
get_output_without_report(state) == [state EXCEPT !.report = <<>>]

\* The workflow's query handler "get_output": the state of the workflow as
\* it is between two of its steps.
get_output(state) == state

\* Lines 201-213: the handle of the workflow id, one query, and what the
\* query returned is returned as it is.
GetVerifyOutput ==
    /\ verification.status # "none"
    /\ observed' = observed \cup {get_output(verification)}
    /\ UNCHANGED <<all_simulator_versions, resolve_vars, api_vars, poll_vars, wf_vars,
                   held, catalog_vars, data_vars, compare_vars, submit_vars, status_vars>>

InitQuery == InitVerify

NextQuery ==
    \/ NextVerify
    \/ GetVerifyOutput

SpecQuery == InitQuery /\ [][NextQuery]_vars

(* ---------------------------------------------------------------------- *)
(* Status endpoint: get_verify_output and the failures of the query        *)
(* ---------------------------------------------------------------------- *)
\* The id of the verification workflow, and an id no workflow has.
KnownWorkflowId == "wf_1"
WorkflowIds == {KnownWorkflowId, "wf_unknown"}

\* The exceptions lines 206-212 can raise, with their str(): the workflow is
\* not known to the substrate, the rpc_timeout of the query has passed, the
\* substrate cannot be reached, the client is not set (the assert).
QueryErrors ==
    { [type |-> "RPCError", message |-> "workflow not found"],
      [type |-> "RPCError", message |-> "timeout expired"],
      [type |-> "RuntimeError", message |-> "failed to connect"],
      [type |-> "AssertionError", message |-> ""] }

\* A handler that answers 404 only when the workflow is not known.
get_verify_output_404_only_for_unknown(workflow_id, query) ==
    IF query.kind = "return"
    THEN [http |-> 200, body |-> query.value, detail |-> <<>>]
    ELSE [http |-> IF query.error.message = "workflow not found" THEN 404 ELSE 500,
          body |-> <<>>,
          detail |-> <<"error retrieving verification job output with id: ",
                       workflow_id, ": ", query.error.message>>]

\* Lines 201-218: what the query returned is returned (200); any Exception
\* becomes HTTPException(404) whose detail is the text of line 216, which
\* ends with str(e2).
get_verify_output(workflow_id, query) ==
    IF query.kind = "return"
    THEN [http |-> 200, body |-> query.value, detail |-> <<>>]
    ELSE [http |-> 404, body |-> <<>>,
          detail |-> <<"error retrieving verification job output with id: ",
                       workflow_id, ": ", query.error.message>>]

\* What the query of a workflow id can end with: the state the workflow
\* holds, for the id of a workflow that exists; workflow not found, for an id
\* without workflow; any of the other errors, for every id.
QueryResults(workflow_id) ==
    LET exists == workflow_id = KnownWorkflowId /\ verification.status # "none"
    IN  (IF exists
         THEN {[kind |-> "return", value |-> <<get_output(verification)>>,
                error |-> [type |-> "", message |-> ""]]}
         ELSE {})
        \cup {[kind |-> "raise", value |-> <<>>, error |-> e] :
                e \in {e \in QueryErrors : e.message = "workflow not found" => ~exists}}

\* One request of GET /verify/{workflow_id}.
GetVerifyOutputRequest(workflow_id, query) ==
    /\ query \in QueryResults(workflow_id)
    /\ LET response == get_verify_output(workflow_id, query)
       IN  status_response' = <<[workflow_id |-> workflow_id, query |-> query,
                                 http |-> response.http, body |-> response.body,
                                 detail |-> response.detail]>>
    /\ UNCHANGED <<all_simulator_versions, resolve_vars, api_vars, poll_vars, wf_vars,
                   query_vars, catalog_vars, data_vars, compare_vars, submit_vars>>

InitStatus == InitVerify

\* The verification workflow with its simulators all of one image, and the
\* requests of the status endpoint at any moment.
NextStatus ==
    \/ VerifyStartWorkflow
    \/ VerifyDispatch("md5_A", [w \in Children |-> "sha256:d1"], "0")
    \/ VerifyDispatchFails
    \/ \E w \in SimSlots :
           \/ SimLookup(w)
           \/ SimSubmit(w)
           \/ \E status \in PollOutcomes : SimPollTerminal(w, status)
           \/ SimSave(w)
    \/ VerifyJoin
    \/ \E workflow_id \in WorkflowIds :
           \E query \in QueryResults(workflow_id) :
               GetVerifyOutputRequest(workflow_id, query)

SpecStatus == InitStatus /\ [][NextStatus]_vars

(* ---------------------------------------------------------------------- *)
(* Simulator catalog: get_simulation_versions under @cached(ttl=3600)      *)
(* ---------------------------------------------------------------------- *)
ttl == 3600

\* The clock moves in steps of half the TTL.
Tick == ttl \div 2

Calls == 1..NumCalls

\* What GET /simulators can answer: 200 with a list of simulators, of which
\* one may have no image, or an error status, or no answer (http 0).
UpstreamCatalogs ==
    { <<[id |-> <<"a">>, version |-> <<"1">>, image |-> <<[url |-> "u", digest |-> "sha256:d1"]>>],
        [id |-> <<"a">>, version |-> <<"2">>, image |-> <<>>],
        [id |-> <<"b">>, version |-> <<"1">>, image |-> <<[url |-> "u", digest |-> "sha256:d1"]>>]>>,
      <<[id |-> <<"b">>, version |-> <<"2">>, image |-> <<[url |-> "u", digest |-> "sha256:d2"]>>]>> }
UpstreamAnswers ==
    [http : {200}, body : UpstreamCatalogs] \cup [http : {500, 0}, body : {<<>>}]

\* Line 114: the simulators that have an image with url and digest.
has_image(s) == Len(s.image) = 1

\* Lines 112-119: one BiosimulatorVersion per simulator that has an image.
RECURSIVE simulation_versions_of(_)
simulation_versions_of(simulation_versions_dict) ==
    IF simulation_versions_dict = <<>> THEN <<>>
    ELSE LET first == Head(simulation_versions_dict)
             rest == simulation_versions_of(Tail(simulation_versions_dict))
         IN  IF has_image(first)
             THEN <<[id |-> first.id, version |-> first.version,
                     image_digest |-> first.image[1].digest]>> \o rest
             ELSE rest

\* A cache that returns its entry whatever its age.
get_from_cache_ignores_ttl(cache, now) == IF cache = <<>> THEN <<>> ELSE <<cache[1].value>>

\* The read of the decorator: the entry of the key while its TTL has not run out.
get_from_cache(cache, now) ==
    IF cache # <<>> /\ now < cache[1].expires_at THEN <<cache[1].value>> ELSE <<>>

\* The write of the decorator: the entry of the key, to live for ttl seconds.
set_in_cache(value, now) == <<[value |-> value, expires_at |-> now + ttl]>>

\* The last list the upstream catalog has answered with.
LastGood(log) ==
    LET ok == {i \in 1..Len(log) : log[i].ok}
    IN  IF ok = {} THEN <<>>
        ELSE <<log[CHOOSE i \in ok : \A j \in ok : j <= i].value>>

IdleCall == [pc |-> "idle", lookup_at |-> 0, fresh |-> <<>>, last_good |-> <<>>,
             result |-> <<>>, error |-> "", fetched |-> FALSE]

\* A call of the decorated method: the cache is read first, and a value found
\* is returned without running the method.
CallGetSimulationVersions(c) ==
    /\ version_calls[c].pc = "idle"
    /\ LET value == get_from_cache(memory_cache, clock)
           fresh == IF memory_cache # <<>> /\ clock < memory_cache[1].expires_at
                    THEN <<memory_cache[1].value>> ELSE <<>>
       IN  version_calls' = [version_calls EXCEPT ![c] =
             IF value # <<>>
             THEN [@ EXCEPT !.pc = "returned", !.lookup_at = clock, !.fresh = fresh,
                            !.result = value]
             ELSE [@ EXCEPT !.pc = "awaiting", !.lookup_at = clock, !.fresh = fresh]]
    /\ UNCHANGED <<all_simulator_versions, resolve_vars, api_vars, poll_vars, wf_vars,
                   query_vars, clock, memory_cache, upstream, data_vars, compare_vars, submit_vars, status_vars>>

\* Lines 107-119 and the rest of the decorator: the upstream answers; a list
\* is stored in the cache and returned, an error is raised out of the call
\* and nothing is stored.
UpstreamAnswersCall(c, answer) ==
    /\ version_calls[c].pc = "awaiting"
    /\ LET ok == answer.http = 200
           value == simulation_versions_of(answer.body)
       IN  /\ version_calls' = [version_calls EXCEPT ![c] =
                 IF ok
                 THEN [@ EXCEPT !.pc = "returned", !.result = <<value>>, !.fetched = TRUE,
                                !.last_good = LastGood(upstream)]
                 ELSE [@ EXCEPT !.pc = "raised", !.fetched = TRUE,
                                !.last_good = LastGood(upstream),
                                !.error = IF answer.http = 0 THEN "ClientConnectionError"
                                          ELSE "ClientResponseError"]]
           /\ memory_cache' = IF ok THEN set_in_cache(value, clock) ELSE memory_cache
           /\ upstream' = Append(upstream, [at |-> clock, by |-> c, ok |-> ok,
                                            value |-> IF ok THEN value ELSE <<>>])
    /\ UNCHANGED <<all_simulator_versions, resolve_vars, api_vars, poll_vars, wf_vars,
                   query_vars, clock, data_vars, compare_vars, submit_vars, status_vars>>

\* Time passes.
ClockTick ==
    /\ clock < MaxTicks * Tick
    /\ clock' = clock + Tick
    /\ UNCHANGED <<all_simulator_versions, resolve_vars, api_vars, poll_vars, wf_vars,
                   query_vars, memory_cache, version_calls, upstream, data_vars,
                   compare_vars, submit_vars, status_vars>>

InitCatalog ==
    /\ all_simulator_versions = <<>>
    /\ ResolveIdle
    /\ ApiIdle
    /\ PollIdle
    /\ WfIdle
    /\ QueryIdle
    /\ clock = 0
    /\ memory_cache = <<>>
    /\ version_calls = [c \in Calls |-> IdleCall]
    /\ upstream = <<>>
    /\ DataIdle
    /\ CompareIdle
    /\ SubmitIdle
    /\ StatusIdle

NextCatalog ==
    \/ \E c \in Calls : CallGetSimulationVersions(c)
    \/ \E c \in Calls, answer \in UpstreamAnswers : UpstreamAnswersCall(c, answer)
    \/ ClockTick

SpecCatalog == InitCatalog /\ [][NextCatalog]_vars

(* ---------------------------------------------------------------------- *)
(* Dataset retrieval: get_hdf5_metadata and get_hdf5_data                  *)
(* ---------------------------------------------------------------------- *)
DatasetNames == {"ds_1", "ds_2"}

\* What the dataset endpoints can answer: 200 with a body that has the
\* expected fields or has not, an error status, or no answer (http 0).
DataAnswers ==
    [http : {200}, body : {"valid", "invalid"}] \cup [http : {400, 404, 500, 0}, body : {""}]

\* Lines 74-85 of the REST client: one GET, raise_for_status, then the
\* HDF5File validated from the text.
rest_get_hdf5_metadata(simulation_run_id, answer) ==
    IF answer.http = 0
    THEN [kind |-> "raise", error |-> "ClientConnectionError", status |-> 0, value |-> <<>>]
    ELSE IF answer.http >= 400
    THEN [kind |-> "raise", error |-> "ClientResponseError", status |-> answer.http,
          value |-> <<>>]
    ELSE IF answer.body # "valid"
    THEN [kind |-> "raise", error |-> "ValidationError", status |-> 0, value |-> <<>>]
    ELSE [kind |-> "return", error |-> "", status |-> 0,
          value |-> <<[hdf5_file_of |-> simulation_run_id]>>]

\* Lines 87-99 of the REST client: one GET, raise_for_status, then the
\* values built from the keys 'shape' and 'values' of the JSON.
rest_get_hdf5_data(simulation_run_id, dataset_name, answer) ==
    IF answer.http = 0
    THEN [kind |-> "raise", error |-> "ClientConnectionError", status |-> 0, value |-> <<>>]
    ELSE IF answer.http >= 400
    THEN [kind |-> "raise", error |-> "ClientResponseError", status |-> answer.http,
          value |-> <<>>]
    ELSE IF answer.body # "valid"
    THEN [kind |-> "raise", error |-> "KeyError", status |-> 0, value |-> <<>>]
    ELSE [kind |-> "return", error |-> "", status |-> 0,
          value |-> <<[values_of |-> simulation_run_id, dataset_name |-> dataset_name]>>]

\* Lines 67-72 of the activities: the REST client's result or error, as it is.
get_hdf5_metadata(input, answer) == rest_get_hdf5_metadata(input.simulation_run_id, answer)

\* Lines 80-86 of the activities: the REST client's result or error, as it is.
get_hdf5_data(get_input, answer) ==
    rest_get_hdf5_data(get_input.simulation_run_id, get_input.dataset_name, answer)

IdleFetch == [pc |-> "idle", activity |-> "", simulation_run_id |-> "", dataset_name |-> "",
              attempt |-> 0, answer |-> <<>>, result |-> <<>>, error |-> <<>>]

\* The caller schedules get_hdf5_metadata for a run.
ScheduleGetHdf5Metadata(simulation_run_id) ==
    /\ fetch.pc = "idle"
    /\ fetch' = [fetch EXCEPT !.pc = "scheduled", !.activity = "get_hdf5_metadata",
                              !.simulation_run_id = simulation_run_id]
    /\ UNCHANGED <<all_simulator_versions, resolve_vars, api_vars, poll_vars, wf_vars,
                   query_vars, catalog_vars, compare_vars, submit_vars, status_vars>>

\* The caller schedules get_hdf5_data for a dataset of a run.
ScheduleGetHdf5Data(simulation_run_id, dataset_name) ==
    /\ fetch.pc = "idle"
    /\ fetch' = [fetch EXCEPT !.pc = "scheduled", !.activity = "get_hdf5_data",
                              !.simulation_run_id = simulation_run_id,
                              !.dataset_name = dataset_name]
    /\ UNCHANGED <<all_simulator_versions, resolve_vars, api_vars, poll_vars, wf_vars,
                   query_vars, catalog_vars, compare_vars, submit_vars, status_vars>>

\* One execution of the scheduled activity: the first, or the substrate's
\* retry of an execution that raised.
DataAttempt(answer) ==
    /\ fetch.pc \in {"scheduled", "failed"}
    /\ fetch.attempt < MaxAttempts
    /\ LET out == IF fetch.activity = "get_hdf5_metadata"
                  THEN get_hdf5_metadata([simulation_run_id |-> fetch.simulation_run_id],
                                         answer)
                  ELSE get_hdf5_data([simulation_run_id |-> fetch.simulation_run_id,
                                      dataset_name |-> fetch.dataset_name], answer)
       IN  fetch' = [fetch EXCEPT !.pc = IF out.kind = "return" THEN "completed" ELSE "failed",
                                  !.attempt = @ + 1,
                                  !.answer = <<answer>>,
                                  !.result = out.value,
                                  !.error = IF out.kind = "raise"
                                            THEN <<[error |-> out.error, status |-> out.status]>>
                                            ELSE <<>>]
    /\ UNCHANGED <<all_simulator_versions, resolve_vars, api_vars, poll_vars, wf_vars,
                   query_vars, catalog_vars, compare_vars, submit_vars, status_vars>>

InitData ==
    /\ all_simulator_versions = <<>>
    /\ ResolveIdle
    /\ ApiIdle
    /\ PollIdle
    /\ WfIdle
    /\ QueryIdle
    /\ CatalogIdle
    /\ fetch = IdleFetch
    /\ CompareIdle
    /\ SubmitIdle
    /\ StatusIdle

NextData ==
    \/ \E id \in RunIds : ScheduleGetHdf5Metadata(id)
    \/ \E id \in RunIds, dataset_name \in DatasetNames : ScheduleGetHdf5Data(id, dataset_name)
    \/ \E answer \in DataAnswers : DataAttempt(answer)

SpecData == InitData /\ [][NextData]_vars

(* ---------------------------------------------------------------------- *)
(* Submission: submit_biosim_sim and BiosimServiceRest.run_biosim_sim      *)
(* ---------------------------------------------------------------------- *)
\* The paths download_file can give the local copy.
LocalPaths == {"tmp_1", "tmp_2"}

\* BiosimSimulatorSpec.version: Optional[str].
SpecVersions == {"None", "1"}

\* get_biosim_service() and get_file_service(): set, or None.
Services == {"initialized", "no_biosim_service", "no_file_service"}

\* file_service.download_file: the bytes are written to a local path, which
\* is returned, or the download raises and writes nothing.
Downloads ==
    [kind : {"return"}, local_omex_path : LocalPaths]
    \cup {[kind |-> "raise", local_omex_path |-> ""]}

\* What POST /runs can answer: 200 with a status (one of the enumeration or
\* a text outside it), an error status, or no answer at all (http 0).
SubmitAnswers ==
    [http : {200}, status : {"CREATED", "NOT_A_STATUS"}]
    \cup [http : {400, 500, 0}, status : {""}]

\* Lines 39-72 of the REST client: the file is opened and posted with the
\* request (version or "latest"), raise_for_status, then the record built
\* from the JSON.
run_biosim_sim(local_omex_path, omex_name, simulator_spec, answer) ==
    IF answer.http = 0
    THEN [kind |-> "raise", error |-> "ClientConnectionError", status |-> 0, run |-> NoRun]
    ELSE IF answer.http >= 400
    THEN [kind |-> "raise", error |-> "ClientResponseError", status |-> answer.http,
          run |-> NoRun]
    ELSE IF answer.status \notin BiosimSimulationRunStatus
    THEN [kind |-> "raise", error |-> "ValueError", status |-> 0, run |-> NoRun]
    ELSE [kind |-> "return", error |-> "", status |-> 0,
          run |-> <<[name |-> omex_name, simulator |-> simulator_spec.simulator,
                     simulatorVersion |-> IF simulator_spec.version = "None"
                                          THEN "latest" ELSE simulator_spec.version,
                     status |-> answer.status]>>]

\* Lines 47-60 of the activities: the two services, the download of the
\* archive to local_omex_path, the submission, os.remove(local_omex_path),
\* return. An exception of run_biosim_sim leaves the activity at line 57.
submit_biosim_sim(input, services, download, answer, files) ==
    IF services # "initialized"
    THEN [kind |-> "raise", error |-> "Exception", status |-> 0, run |-> NoRun,
          local_omex_path |-> <<>>, files |-> files]
    ELSE IF download.kind = "raise"
    THEN [kind |-> "raise", error |-> "FileServiceError", status |-> 0, run |-> NoRun,
          local_omex_path |-> <<>>, files |-> files]
    ELSE LET on_disk == files \cup {download.local_omex_path}
             out == run_biosim_sim(download.local_omex_path, input.source_omex.name,
                                   input.simulator_spec, answer)
         IN  [kind |-> out.kind, error |-> out.error, status |-> out.status,
              run |-> out.run, local_omex_path |-> <<download.local_omex_path>>,
              files |-> IF out.kind = "return"
                        THEN on_disk \ {download.local_omex_path}
                        ELSE on_disk]

IdleSubmit == [pc |-> "idle", input |-> <<>>, attempt |-> 0, local_omex_path |-> <<>>,
               downloaded |-> {}, result |-> NoRun, error |-> <<>>]

\* The simulation workflow schedules submit_biosim_sim for an archive and a
\* simulator.
ScheduleSubmitBiosimSim(version) ==
    /\ submit.pc = "idle"
    /\ submit' = [submit EXCEPT
                    !.pc = "scheduled",
                    !.input = <<[source_omex |-> [name |-> "omex_A",
                                                  omex_s3_file |-> "omex/md5_A"],
                                 simulator_spec |-> [simulator |-> "a",
                                                     version |-> version]]>>]
    /\ UNCHANGED <<all_simulator_versions, resolve_vars, api_vars, poll_vars, wf_vars,
                   query_vars, catalog_vars, data_vars, compare_vars, local_files,
                   status_vars>>

\* One execution of the activity: the first, or the substrate's retry of an
\* execution that raised.
SubmitAttempt(services, download, answer) ==
    /\ submit.pc \in {"scheduled", "failed"}
    /\ submit.attempt < MaxAttempts
    /\ LET out == submit_biosim_sim(submit.input[1], services, download, answer,
                                    local_files)
       IN  /\ submit' = [submit EXCEPT
                           !.pc = IF out.kind = "return" THEN "completed" ELSE "failed",
                           !.attempt = @ + 1,
                           !.local_omex_path = out.local_omex_path,
                           !.downloaded = @ \cup {out.local_omex_path[i] :
                                                    i \in 1..Len(out.local_omex_path)},
                           !.result = out.run,
                           !.error = IF out.kind = "raise"
                                     THEN <<[error |-> out.error, status |-> out.status]>>
                                     ELSE <<>>]
           /\ local_files' = out.files
    /\ UNCHANGED <<all_simulator_versions, resolve_vars, api_vars, poll_vars, wf_vars,
                   query_vars, catalog_vars, data_vars, compare_vars, status_vars>>

InitSubmit ==
    /\ all_simulator_versions = <<>>
    /\ ResolveIdle
    /\ ApiIdle
    /\ PollIdle
    /\ WfIdle
    /\ QueryIdle
    /\ CatalogIdle
    /\ DataIdle
    /\ CompareIdle
    /\ submit = IdleSubmit
    /\ local_files = {}
    /\ StatusIdle

NextSubmit ==
    \/ \E version \in SpecVersions : ScheduleSubmitBiosimSim(version)
    \/ \E services \in Services, download \in Downloads, answer \in SubmitAnswers :
           SubmitAttempt(services, download, answer)

SpecSubmit == InitSubmit /\ [][NextSubmit]_vars

(* ---------------------------------------------------------------------- *)
(* Comparison of two values under CompareSettings                          *)
(* ---------------------------------------------------------------------- *)
\* Values are in thousandths; rel_tol and abs_tol_scale are in units of
\* 0.00001, abs_tol_min in thousandths. The first settings are the defaults
\* of verify_omex and verify_runs: rel_tol=0.0001, abs_tol_min=0.001,
\* abs_tol_scale=0.00001.
Scale == 100000
DefaultCompareSettings == [rel_tol |-> 10, abs_tol_min |-> 1, abs_tol_scale |-> 1]
CompareSettings ==
    { DefaultCompareSettings,
      [rel_tol |-> 0, abs_tol_min |-> 0, abs_tol_scale |-> 0],
      [rel_tol |-> 10000, abs_tol_min |-> 1, abs_tol_scale |-> 1] }
CompareValues ==
    {-100500, -100000, -112, -1, 0, 1, 2, 100, 112, 100000, 100002, 100011, 100012, 100500}

Abs(x) == IF x < 0 THEN 0 - x ELSE x
Max(x, y) == IF x >= y THEN x ELSE y

\* An agreement test that takes the second value as the reference.
is_close_to_reference(a, b, settings) ==
    LET atol == Max(settings.abs_tol_min * Scale, Abs(b) * settings.abs_tol_scale)
    IN  Abs(a - b) <= (atol + settings.rel_tol * Abs(b)) \div Scale

\* atol = max(abs_tol_min, max(|a|,|b|) * abs_tol_scale); the values agree
\* iff |a-b| <= atol + rel_tol * max(|a|,|b|). The right side is in units of
\* 1/Scale of a thousandth; for the whole number |a-b| the comparison with it
\* is the comparison with its quotient by Scale.
is_close(a, b, settings) ==
    LET m == Max(Abs(a), Abs(b))
        atol == Max(settings.abs_tol_min * Scale, m * settings.abs_tol_scale)
    IN  Abs(a - b) <= (atol + settings.rel_tol * m) \div Scale

\* One pair of values is compared.
Compare ==
    /\ compare.pc = "new"
    /\ compare' = [compare EXCEPT !.pc = "done",
                                  !.agree = <<is_close(compare.a, compare.b,
                                                       compare.settings)>>]
    /\ UNCHANGED <<all_simulator_versions, resolve_vars, api_vars, poll_vars, wf_vars,
                   query_vars, catalog_vars, data_vars, submit_vars, status_vars>>

InitCompare ==
    /\ all_simulator_versions = <<>>
    /\ ResolveIdle
    /\ ApiIdle
    /\ PollIdle
    /\ WfIdle
    /\ QueryIdle
    /\ CatalogIdle
    /\ DataIdle
    /\ compare \in [pc : {"new"}, a : CompareValues, b : CompareValues,
                     settings : CompareSettings, agree : {<<>>}]
    /\ SubmitIdle
    /\ StatusIdle

NextCompare == Compare

SpecCompare == InitCompare /\ [][NextCompare]_vars

(* ---------------------------------------------------------------------- *)
(* Simulator resolution: C1, C2                                            *)
(* ---------------------------------------------------------------------- *)
\* The positions of the catalog whose id is the given name.
MatchingPositions(all, name) == {i \in 1..Len(all) : all[i].id = name}

MaxOf(S) == CHOOSE m \in S : \A x \in S : x <= m
MinOf(S) == CHOOSE m \in S : \A x \in S : m <= x

\* C1: a simulator given by name only (no colon) resolves to the catalog entry
\* at the greatest position whose id equals the name, whenever one exists.
C1_NameOnlyReturnsLastMatch ==
    (resolution # <<>> /\ ~Contains(simulator, COLON)) =>
        LET M == MatchingPositions(all_simulator_versions, simulator)
        IN  M # {} =>
              resolution[1] = [kind |-> "resolved",
                               sv |-> <<all_simulator_versions[MaxOf(M)]>>]

\* C1 witness: two different entries carry the name, and the later one is returned.
C1_Witness ==
    /\ resolution # <<>>
    /\ ~Contains(simulator, COLON)
    /\ LET M == MatchingPositions(all_simulator_versions, simulator)
       IN  /\ Cardinality(M) >= 2
           /\ all_simulator_versions[MinOf(M)] # all_simulator_versions[MaxOf(M)]
           /\ resolution[1].sv = <<all_simulator_versions[MaxOf(M)]>>

\* The positions of the colons of a string.
ColonPositions(s) == {i \in 1..Len(s) : s[i] = COLON}

\* For a string with exactly one colon, the text before it and the text after it.
NameOf(s) == SubSeq(s, 1, MinOf(ColonPositions(s)) - 1)
VersionOf(s) == SubSeq(s, MinOf(ColonPositions(s)) + 1, Len(s))

\* C2: for a simulator given as name:version (one colon), the result is an
\* entry of the catalog with that id and that version when the catalog holds
\* one, and the 400 rejection when it holds none; an entry of another version
\* is never returned.
C2_NameVersionExactMatch ==
    (resolution # <<>> /\ Cardinality(ColonPositions(simulator)) = 1) =>
        LET all == all_simulator_versions
            name == NameOf(simulator)
            version == VersionOf(simulator)
            hit == \E i \in 1..Len(all) :
                       all[i].id = name /\ all[i].version = version
            r == resolution[1]
        IN  /\ hit => /\ r.kind = "resolved"
                      /\ \E i \in 1..Len(all) : r.sv = <<all[i]>>
                      /\ r.sv[1].id = name
                      /\ r.sv[1].version = version
            /\ ~hit => r = [kind |-> "HTTPException400", sv |-> <<>>]

\* C2 witness: the first entry has the name and another version, and the
\* second entry, which matches both, is the one returned.
C2_Witness ==
    /\ resolution # <<>>
    /\ Cardinality(ColonPositions(simulator)) = 1
    /\ Len(all_simulator_versions) >= 2
    /\ all_simulator_versions[1].id = NameOf(simulator)
    /\ all_simulator_versions[1].version # VersionOf(simulator)
    /\ all_simulator_versions[2].id = NameOf(simulator)
    /\ all_simulator_versions[2].version = VersionOf(simulator)
    /\ resolution[1] = [kind |-> "resolved", sv |-> <<all_simulator_versions[2]>>]

(* ---------------------------------------------------------------------- *)
(* verify_omex: rejection before dispatch                                  *)
(* ---------------------------------------------------------------------- *)
\* A simulator string can be resolved against a catalog when an entry has
\* the string as its id (no colon) or is named by it as id:version.
Resolvable(all, s) ==
    IF Contains(s, COLON)
    THEN \E i \in 1..Len(all) : s = all[i].id \o <<COLON>> \o all[i].version
    ELSE \E i \in 1..Len(all) : s = all[i].id

PastResolution(r) == request[r].pc \in {"resolved", "raised", "returned"}

\* C3: a request with a simulator that cannot be resolved is rejected with the
\* validation error (HTTP 400) and starts no workflow, and every workflow
\* started carries one resolved entry per requested simulator.
C3_UnresolvableRejectedBeforeDispatch ==
    /\ \A r \in Requests :
         (/\ PastResolution(r)
          /\ \E i \in 1..Len(request[r].simulators) :
                 ~Resolvable(all_simulator_versions, request[r].simulators[i]))
         => /\ request[r].pc = "raised"
            /\ request[r].response = "HTTPException400"
            /\ \A k \in 1..Len(workflows) : workflows[k].started_by # r
    /\ \A k \in 1..Len(workflows) :
         LET req == request[workflows[k].started_by]
         IN  /\ Len(workflows[k].requested_simulators) = Len(req.simulators)
             /\ \A i \in 1..Len(req.simulators) :
                    Resolvable(all_simulator_versions, req.simulators[i])

\* C3, the part about dispatch alone: no workflow is started for a request
\* with a simulator that cannot be resolved, whatever the request ends with.
C3_NoDispatchUnlessAllResolved ==
    \A k \in 1..Len(workflows) :
        LET req == request[workflows[k].started_by]
        IN  /\ Len(workflows[k].requested_simulators) = Len(req.simulators)
            /\ \A i \in 1..Len(req.simulators) :
                   /\ Resolvable(all_simulator_versions, req.simulators[i])
                   /\ resolve_simulator(all_simulator_versions, req.simulators[i]).sv
                        = <<workflows[k].requested_simulators[i]>>

(* ---------------------------------------------------------------------- *)
(* Content store: one record and one object per hash                       *)
(* ---------------------------------------------------------------------- *)
\* The storage objects of a hash.
ObjectsOf(file_hash_md5) == {path \in storage : path[2] = file_hash_md5}

\* C9: the database holds at most one record per hash and the storage at most
\* one object per hash; an upload whose hash is found recorded returns that
\* record and writes nothing, and every upload returns the record of its hash.
C9_OneRecordAndObjectPerHash ==
    /\ \A i, j \in 1..Len(omex_database) :
         omex_database[i].file_hash_md5 = omex_database[j].file_hash_md5 => i = j
    /\ \A bytes \in UploadedFiles : Cardinality(ObjectsOf(hash_bytes_md5(bytes))) <= 1
    /\ \A r \in Requests :
         /\ request[r].found => (request[r].uploads = 0 /\ request[r].inserts = 0)
         /\ request[r].pc = "have_omex" =>
              /\ Len(request[r].omex_file) = 1
              /\ request[r].omex_file[1].file_hash_md5 = request[r].file_hash_md5
              /\ \E i \in 1..Len(omex_database) : omex_database[i] = request[r].omex_file[1]
              /\ ObjectsOf(request[r].file_hash_md5) # {}

\* C9 witness: a second upload of a recorded hash got the record the first
\* upload inserted, and wrote nothing.
C9_Witness ==
    \E r1, r2 \in Requests :
        /\ r1 # r2
        /\ request[r1].pc = "have_omex" /\ request[r1].inserts = 1
        /\ request[r2].pc = "have_omex" /\ request[r2].found
        /\ request[r2].omex_file = request[r1].omex_file
        /\ request[r2].uploads = 0 /\ request[r2].inserts = 0
        /\ Len(omex_database) = 1
        /\ Cardinality(storage) = 1

(* ---------------------------------------------------------------------- *)
(* Run status: not found                                                   *)
(* ---------------------------------------------------------------------- *)
NotFoundRecord(biosim_run_id) ==
    [id |-> biosim_run_id, name |-> "", simulator |-> "", simulatorVersion |-> "",
     status |-> "RUN_ID_NOT_FOUND"]

\* C4: when the remote answers an execution of get_sim_run with 404 and
\* abort_on_not_found is true, the execution returns the RUN_ID_NOT_FOUND
\* record of the requested run id after its one status request and does not
\* raise, and the substrate has no execution of the activity left to run.
C4_NotFoundWithAbortReturns ==
    (/\ poll.answer # <<>>
     /\ poll.answer[1].http = 404
     /\ poll.abort_on_not_found = "True")
    => /\ poll.pc = "completed"
       /\ poll.error = <<>>
       /\ poll.result = <<NotFoundRecord(poll.biosim_run_id)>>
       /\ poll.requests = 1
       /\ ~ENABLED (\E answer \in RemoteAnswers : GetSimRunAttempt(answer))

\* C4 witness: the first execution was answered 404 with the flag set.
C4_Witness ==
    /\ poll.answer # <<>>
    /\ poll.answer[1].http = 404
    /\ poll.abort_on_not_found = "True"
    /\ poll.attempt = 1
    /\ remote.status_requests = 1
    /\ poll.pc = "completed"
    /\ poll.result[1].status = "RUN_ID_NOT_FOUND"

\* C5 as claimed: for every value of abort_on_not_found, once the remote has
\* reported the run id as not found no further status request is issued, and
\* the activity has returned RUN_ID_NOT_FOUND.
C5_NotFoundNeverRetried ==
    remote.not_found_reported =>
        /\ remote.requests_after_not_found = 0
        /\ poll.pc = "completed" => poll.result[1].status = "RUN_ID_NOT_FOUND"

\* C5 as amended: with abort_on_not_found true, once the remote has reported
\* the run id as not found the run is in RUN_ID_NOT_FOUND, a terminal status,
\* and no further status request is issued for it.
C5_NotFoundWithAbortNeverRetried ==
    (remote.not_found_reported /\ poll.abort_on_not_found = "True") =>
        /\ remote.requests_after_not_found = 0
        /\ poll.pc = "completed"
        /\ poll.result[1].status = "RUN_ID_NOT_FOUND"
        /\ poll.result[1].status \in TerminalStatuses
        /\ ~ENABLED PollAgain

\* C5 witness: the not-found answer came to a retry, after an execution that
\* raised, and ended the polling.
C5_Witness ==
    /\ remote.not_found_reported
    /\ poll.abort_on_not_found = "True"
    /\ poll.attempt >= 2
    /\ poll.attempt < MaxAttempts
    /\ poll.pc = "completed"
    /\ remote.requests_after_not_found = 0


(* ---------------------------------------------------------------------- *)
(* Run cache: C6, C7                                                       *)
(* ---------------------------------------------------------------------- *)
PastLookup(w) == sim[w].pc \notin {"idle", "NOT_STARTED"}

\* C6: once a SUCCEEDED run is stored for a key (file_hash_md5, image_digest,
\* cache_buster), a request with that key that looks the key up finds it: the
\* workflow ends with one of those stored records as its result and no remote
\* simulation is submitted for it.
C6_CachedRunReusedWithoutSubmission ==
    \A w \in SimSlots :
        (PastLookup(w) /\ sim[w].cached # {}) =>
            /\ sim[w].pc = "done"
            /\ Len(sim[w].reused) = 1
            /\ \E i \in sim[w].cached : sim[w].reused[1] = run_store[i]
            /\ sim[w].submissions = 0
            /\ \A k \in 1..Len(remote_runs) : remote_runs[k].submitted_by # w

C6_Witness ==
    \E w \in SimSlots :
        /\ sim[w].pc = "done"
        /\ sim[w].cached # {}
        /\ Len(sim[w].reused) = 1
        /\ sim[w].reused[1].workflow_id # w
        /\ sim[w].submissions = 0

\* C7: a request and a stored run that differ only in cache_buster have
\* different cache keys; a workflow never gets a record stored under another
\* cache_buster as its result; with no SUCCEEDED run under its own key it goes
\* on to a remote submission of its own, whatever is stored under another
\* cache_buster; and its succeeded run is stored under its own cache_buster.
C7_CacheBusterSeparatesEntries ==
    \A w \in SimSlots :
        /\ \A i \in 1..Len(run_store) :
              ( /\ sim[w].pc # "idle"
                /\ run_store[i].file_hash_md5 = sim[w].file_hash_md5
                /\ run_store[i].image_digest = sim[w].image_digest
                /\ run_store[i].cache_buster # sim[w].cache_buster ) =>
                    cache_key(run_store[i]) # cache_key(WorkflowRun(w))
        /\ Len(sim[w].reused) = 1 =>
              /\ sim[w].reused[1].cache_buster = sim[w].cache_buster
              /\ sim[w].reused[1].file_hash_md5 = sim[w].file_hash_md5
              /\ sim[w].reused[1].image_digest = sim[w].image_digest
        /\ (PastLookup(w) /\ sim[w].cached = {}) =>
              /\ sim[w].reused = <<>>
              /\ sim[w].pc = "SUBMITTING" \/ sim[w].submissions = 1
        /\ (sim[w].pc = "done" /\ sim[w].status = "SUCCEEDED") =>
              \E i \in 1..Len(run_store) :
                  /\ run_store[i].file_hash_md5 = sim[w].file_hash_md5
                  /\ run_store[i].image_digest = sim[w].image_digest
                  /\ run_store[i].cache_buster = sim[w].cache_buster

C7_Witness ==
    \E w \in SimSlots : \E i, j \in 1..Len(run_store) :
        /\ i < j
        /\ run_store[j].workflow_id = w
        /\ run_store[i].workflow_id # w
        /\ run_store[i].file_hash_md5 = run_store[j].file_hash_md5
        /\ run_store[i].image_digest = run_store[j].image_digest
        /\ run_store[i].cache_buster # run_store[j].cache_buster
        /\ run_store[i].biosim_run.id < run_store[j].biosim_run.id
        /\ sim[w].pc = "done"
        /\ sim[w].cached = {}
        /\ sim[w].reused = <<>>
        /\ sim[w].submissions = 1

(* ---------------------------------------------------------------------- *)
(* Concurrent requests for one key: C8                                     *)
(* ---------------------------------------------------------------------- *)
SameKey(a, b) ==
    /\ a.file_hash_md5 = b.file_hash_md5
    /\ a.image_digest = b.image_digest
    /\ a.cache_buster = b.cache_buster

AllChildrenDone == \A w \in verification.children : sim[w].pc = "done"

\* C10: a verification is FAILED only when nothing was dispatched; a run that
\* failed leaves every unfinished sibling able to take its next step; a run
\* that ended SUCCEEDED has a SUCCEEDED record stored; once all runs are
\* terminal the join can be taken; and the COMPLETED verification reports
\* every run with the status it ended with, the runs that did not succeed
\* listed as such.
C10_PartialFailureContained ==
    /\ verification.status = "FAILED" => \A w \in SimSlots : sim[w].pc = "idle"
    /\ \A w \in verification.children : sim[w].pc # "done" => ENABLED SimStep(w)
    /\ \A w \in verification.children :
          (sim[w].pc = "done" /\ sim[w].status = "SUCCEEDED") =>
              \E i \in 1..Len(run_store) :
                  /\ run_store[i].file_hash_md5 = sim[w].file_hash_md5
                  /\ run_store[i].image_digest = sim[w].image_digest
                  /\ run_store[i].cache_buster = sim[w].cache_buster
                  /\ run_store[i].biosim_run.status = "SUCCEEDED"
    /\ (verification.status = "RUNNING" /\ AllChildrenDone) => ENABLED VerifyJoin
    /\ verification.status = "COMPLETED" =>
          /\ AllChildrenDone
          /\ Len(verification.report) = 1
          /\ verification.report[1].run_status =
                 [w \in verification.children |-> sim[w].status]
          /\ verification.report[1].failed =
                 {w \in verification.children : sim[w].status # "SUCCEEDED"}

C10_Witness ==
    /\ verification.status = "COMPLETED"
    /\ \E w \in verification.children : sim[w].status = "FAILED"
    /\ \E w \in verification.children : sim[w].status = "SUCCEEDED"
    /\ Len(verification.report) = 1
    /\ verification.report[1].failed # {}
    /\ verification.report[1].failed # verification.children


(* ---------------------------------------------------------------------- *)
(* The response of a verification request: C11                             *)
(* ---------------------------------------------------------------------- *)
StartedBy(r) == {k \in 1..Len(workflows) : workflows[k].started_by = r}

\* C11: a request that has passed validation can start its workflow at once;
\* a request that has returned has status PENDING, has started exactly one
\* workflow, and its workflow_id is the id of that workflow: the given prefix
\* followed by an identifier no other workflow has. A request that has not
\* returned has started none, and the response is there while no simulator
\* run has finished.
C11_ValidRequestStartsOneWorkflowPending ==
    \A r \in Requests :
        /\ request[r].pc = "resolved" =>
              \A p \in WorkflowIdPrefixes, c \in CacheBusters :
                  ENABLED VerifyOmexStart(r, p, c)
        /\ request[r].pc = "new" =>
              \A p \in WorkflowIdPrefixes, ids \in RunIdLists : ENABLED VerifyRuns(r, p, ids)
        /\ request[r].pc # "returned" => StartedBy(r) = {}
        /\ request[r].pc = "returned" =>
              /\ request[r].response = "PENDING"
              /\ Cardinality(StartedBy(r)) = 1
              /\ \A k \in StartedBy(r) :
                    /\ workflows[k].id = request[r].workflow_id
                    /\ workflows[k].id[1] = request[r].workflow_id_prefix
                    /\ \A j \in 1..Len(workflows) :
                          j # k => workflows[j].id[2] # workflows[k].id[2]
              /\ \A w \in SimSlots : sim[w].pc # "done"

C11_Witness ==
    \E r1, r2 \in Requests :
        /\ request[r1].pc = "returned" /\ request[r1].endpoint = "verify_omex"
        /\ request[r2].pc = "returned" /\ request[r2].endpoint = "verify_runs"
        /\ request[r1].workflow_id_prefix = request[r2].workflow_id_prefix
        /\ request[r1].workflow_id # request[r2].workflow_id
        /\ request[r1].response = "PENDING" /\ request[r2].response = "PENDING"

(* ---------------------------------------------------------------------- *)
(* Verification status: C12, C13                                           *)
(* ---------------------------------------------------------------------- *)
StatusRank(status) ==
    CASE status = "none" -> 0
      [] status = "PENDING" -> 1
      [] status = "RUNNING" -> 2
      [] OTHER -> 3

VerificationTerminal == verification.status \in {"COMPLETED", "FAILED"}

\* C12: a change of the verification status is a move forward along
\* PENDING, RUNNING, {COMPLETED, FAILED}, RUNNING is entered from PENDING
\* alone, and in COMPLETED or FAILED no step changes the status, the report or
\* the run records of the verification.
C12_StatusMovesForwardAndTerminalIsFrozen ==
    [][ /\ verification'.status # verification.status =>
              /\ StatusRank(verification'.status) > StatusRank(verification.status)
              /\ verification'.status = "PENDING" => verification.status = "none"
              /\ verification'.status = "RUNNING" => verification.status = "PENDING"
              /\ verification'.status = "COMPLETED" => verification.status = "RUNNING"
        /\ VerificationTerminal =>
              /\ verification' = verification
              /\ \A w \in verification.children : sim'[w] = sim[w]
      ]_vars

C12_Witness ==
    /\ verification.status = "COMPLETED"
    /\ \E o \in observed : o.status = "COMPLETED"
    /\ \E o \in observed : o.status = "RUNNING"
    /\ \E o \in observed : o.status = "PENDING"

PastCacheRead(c) == version_calls[c].pc # "idle"

\* C14 as stated: after an upstream request that was answered with a list, the
\* next upstream request is at least the TTL later, and every call that starts
\* within the TTL of a stored result returns that result.
C14_OneFetchPerTtl ==
    /\ \A i, j \in 1..Len(upstream) :
          (i < j /\ upstream[i].ok) => upstream[j].at - upstream[i].at >= ttl
    /\ \A i \in 1..Len(upstream) : \A d \in Calls :
          ( /\ upstream[i].ok
            /\ version_calls[d].pc = "returned"
            /\ upstream[i].at <= version_calls[d].lookup_at
            /\ version_calls[d].lookup_at < upstream[i].at + ttl ) =>
                version_calls[d].result = <<upstream[i].value>>

\* C14, amended: a call that finds an entry stored less than the TTL ago
\* returns the list of that entry and makes no upstream request; a call that
\* finds none goes upstream; and an entry lives exactly the TTL from the
\* answer it was stored at.
C14_CachedWithinTtlFetchOnlyWithoutEntry ==
    /\ \A c \in Calls :
          /\ (PastCacheRead(c) /\ version_calls[c].fresh # <<>>) =>
                /\ version_calls[c].pc = "returned"
                /\ version_calls[c].result = version_calls[c].fresh
                /\ ~version_calls[c].fetched
                /\ \A i \in 1..Len(upstream) : upstream[i].by # c
          /\ (PastCacheRead(c) /\ version_calls[c].fresh = <<>>) =>
                \/ version_calls[c].pc = "awaiting"
                \/ /\ version_calls[c].fetched
                   /\ Cardinality({i \in 1..Len(upstream) : upstream[i].by = c}) = 1
    /\ memory_cache # <<>> =>
          \E i \in 1..Len(upstream) :
              /\ upstream[i].ok
              /\ memory_cache[1].value = upstream[i].value
              /\ memory_cache[1].expires_at = upstream[i].at + ttl

C14_Witness ==
    \E c, d \in Calls :
        /\ version_calls[c].pc = "returned" /\ version_calls[c].fetched
        /\ version_calls[d].pc = "returned" /\ ~version_calls[d].fetched
        /\ version_calls[d].result = version_calls[c].result
        /\ version_calls[d].lookup_at > version_calls[c].lookup_at
        /\ Len(upstream) = 1
        /\ clock >= ttl

\* C15: a call whose upstream request fails after a list was fetched before
\* returns that last list, and raises nothing.
C15_RefreshFailureFallsBackToLastGood ==
    \A c \in Calls :
        ( /\ version_calls[c].fetched
          /\ version_calls[c].last_good # <<>>
          /\ \E i \in 1..Len(upstream) : upstream[i].by = c /\ ~upstream[i].ok ) =>
              /\ version_calls[c].pc = "returned"
              /\ version_calls[c].result = version_calls[c].last_good

(* ---------------------------------------------------------------------- *)
(* Not found during dataset retrieval: C16                                 *)
(* ---------------------------------------------------------------------- *)
\* C16: a dataset retrieval that the remote answers with 404 completes with
\* the status RUN_ID_NOT_FOUND: it is not left failed with an error to retry.
C16_NotFoundAtAnyStageIsTerminal ==
    (fetch.answer # <<>> /\ fetch.answer[1].http = 404) =>
        /\ fetch.pc = "completed"
        /\ fetch.error = <<>>
        /\ Len(fetch.result) = 1
        /\ "status" \in DOMAIN fetch.result[1]
        /\ fetch.result[1].status = "RUN_ID_NOT_FOUND"

(* ---------------------------------------------------------------------- *)
(* The join before the comparison: C17                                     *)
(* ---------------------------------------------------------------------- *)
\* C17: a report exists only when every dispatched run is terminal; the join
\* that makes it can be taken exactly then; and a run that is not terminal
\* can take its next step whatever its siblings have reached.
C17_ReportOnlyAfterAllRunsTerminal ==
    /\ verification.report # <<>> =>
          /\ verification.status = "COMPLETED"
          /\ \A w \in verification.children : sim[w].pc = "done"
          /\ \A w \in verification.children :
                verification.report[1].run_status[w] \in TerminalStatuses
    /\ (ENABLED VerifyJoin) <=> (verification.status = "RUNNING" /\ AllChildrenDone)
    /\ \A w \in verification.children : sim[w].pc # "done" => ENABLED SimStep(w)

C17_Witness ==
    /\ verification.status = "RUNNING"
    /\ verification.report = <<>>
    /\ sim[NumSimulators].pc = "done"
    /\ sim[1].pc = "POLLING"
    /\ \E w \in verification.children : sim[w].pc = "NOT_STARTED"

LargerMagnitude(a, b) ==
    CHOOSE m \in {a, 0 - a, b, 0 - b} : \A x \in {a, 0 - a, b, 0 - b} : x <= m

AnswerFails(answer) == answer.http # 200 \/ answer.status \notin BiosimSimulationRunStatus

\* C20: the last execution of get_sim_run (poll.attempt counts the executions
\* since the activity was scheduled) has the RUN_ID_NOT_FOUND record as its
\* result only when the remote answered 404 and abort_on_not_found is true;
\* an execution that fails in any other way returns no record and raises the
\* error of the REST client as it is: the ClientResponseError with the status
\* answered, the connection error, or the ValueError of a status text outside
\* the enumeration.
C20_NotFoundRecordOnlyFor404WithAbort ==
    poll.attempt > 0 =>
        LET answer == poll.answer[1]
            aborts == answer.http = 404 /\ poll.abort_on_not_found = "True"
        IN  /\ (poll.result # <<>> /\ poll.result[1].status = "RUN_ID_NOT_FOUND") => aborts
            /\ aborts => poll.result = <<NotFoundRecord(poll.biosim_run_id)>>
            /\ (AnswerFails(answer) /\ ~aborts) =>
                  /\ poll.pc = "failed"
                  /\ poll.result = <<>>
                  /\ poll.error =
                       <<IF answer.http = 0
                         THEN [error |-> "ClientConnectionError", status |-> 0]
                         ELSE IF answer.http = 200
                         THEN [error |-> "ValueError", status |-> 0]
                         ELSE [error |-> "ClientResponseError", status |-> answer.http]>>
            /\ ~AnswerFails(answer) =>
                  /\ poll.pc = "completed"
                  /\ poll.result[1].status = answer.status

C20_Witness ==
    /\ poll.attempt > 0
    /\ poll.answer[1].http = 500
    /\ poll.abort_on_not_found = "True"
    /\ poll.pc = "failed"
    /\ poll.result = <<>>
    /\ poll.error = <<[error |-> "ClientResponseError", status |-> 500]>>

(* ---------------------------------------------------------------------- *)
(* verify_omex: what a rejected request leaves behind: C21                 *)
(* ---------------------------------------------------------------------- *)
\* C21: a verify_omex request rejected with the validation error
\* (HTTPException 400, simulator not found) has started no workflow, has
\* written no storage object and has inserted no archive record.
C21_RejectedRequestLeavesStateUnchanged ==
    \A r \in Requests :
        request[r].response = "HTTPException400" =>
            /\ StartedBy(r) = {}
            /\ request[r].uploads = 0
            /\ request[r].inserts = 0
            /\ \A i \in 1..Len(omex_database) : omex_database[i].inserted_by # r

\* C21, the part about dispatch alone: a request that ended with an exception
\* has started no workflow.
C21_RejectedRequestStartsNoWorkflow ==
    \A r \in Requests : request[r].pc = "raised" => StartedBy(r) = {}

(* ---------------------------------------------------------------------- *)
(* Simulator strings of every shape: C22                                   *)
(* ---------------------------------------------------------------------- *)
\* C22: the resolution of a simulator string of any shape ends either with
\* the catalog entry it names or with the validation error (HTTPException
\* 400), and with no other fault.
C22_EveryShapeResolvesOrIsRejected ==
    resolution # <<>> =>
        /\ resolution[1].kind \in {"resolved", "HTTPException400"}
        /\ resolution[1].kind = "resolved" <=> Resolvable(all_simulator_versions, simulator)
        /\ resolution[1].kind = "resolved" =>
              \E i \in 1..Len(all_simulator_versions) :
                  resolution[1].sv = <<all_simulator_versions[i]>>

\* C22 for the strings with at most one colon: these are resolved or rejected
\* with the validation error.
C22_AtMostOneColonResolvesOrIsRejected ==
    (resolution # <<>> /\ Cardinality(ColonPositions(simulator)) <= 1) =>
        /\ resolution[1].kind \in {"resolved", "HTTPException400"}
        /\ resolution[1].kind = "resolved" <=> Resolvable(all_simulator_versions, simulator)

(* ---------------------------------------------------------------------- *)
(* verify_runs: the run ids as given, nothing else touched: C23            *)
(* ---------------------------------------------------------------------- *)
\* The requests that verify_runs has served.
RunsRequests == {r \in Requests : request[r].endpoint = "verify_runs"}

\* C23: verify_runs can start its workflow for every list of run ids, whatever
\* the catalog and the content store hold; the request it has served has
\* started exactly one RunsVerifyWorkflow, whose run ids are the list of the
\* request (same elements, same order, repeated ids kept), and has neither
\* looked up, uploaded nor inserted an archive nor resolved a simulator; the
\* step that serves it leaves the content store and the catalog as they were
\* and adds that one workflow.
C23_RunIdsVerbatimNothingElseTouched ==
    /\ [](\A r \in Requests :
            /\ request[r].pc = "new" =>
                  \A p \in WorkflowIdPrefixes, ids \in RunIdLists :
                      ENABLED VerifyRuns(r, p, ids)
            /\ r \in RunsRequests =>
                  /\ Cardinality(StartedBy(r)) = 1
                  /\ \A k \in StartedBy(r) :
                        /\ workflows[k].workflow = "RunsVerifyWorkflow"
                        /\ workflows[k].biosimulations_run_ids
                             = request[r].biosimulations_run_ids
                  /\ request[r].uploads = 0 /\ request[r].inserts = 0
                  /\ ~request[r].found /\ request[r].file_hash_md5 = ""
                  /\ request[r].simulators = <<>>)
    /\ [][\A r \in Requests :
            (request[r].endpoint = "" /\ request'[r].endpoint = "verify_runs") =>
                /\ request[r].pc = "new"
                /\ UNCHANGED <<omex_database, storage, all_simulator_versions>>
                /\ Len(workflows') = Len(workflows) + 1
                /\ SubSeq(workflows', 1, Len(workflows)) = workflows
                /\ workflows'[Len(workflows')].biosimulations_run_ids
                     = request'[r].biosimulations_run_ids]_vars

\* C23 witness: a list with an id given twice and a list in descending order
\* were passed on as they are.
C23_Witness ==
    \E r1, r2 \in RunsRequests :
        /\ request[r1].biosimulations_run_ids = <<"run_1", "run_1">>
        /\ request[r2].biosimulations_run_ids = <<"run_2", "run_1">>
        /\ \E k \in StartedBy(r1) : workflows[k].biosimulations_run_ids = <<"run_1", "run_1">>
        /\ \E k \in StartedBy(r2) : workflows[k].biosimulations_run_ids = <<"run_2", "run_1">>
        /\ Len(workflows) = 2

(* ---------------------------------------------------------------------- *)
(* submit_biosim_sim: the local copy of the archive: C24                   *)
(* ---------------------------------------------------------------------- *)
\* C24: when an execution of submit_biosim_sim has ended, by return or by an
\* exception, the file it downloaded to local_omex_path is no longer on the
\* disk, and none of the files the earlier executions downloaded is.
C24_NoLocalCopyLeftBehind ==
    submit.pc \in {"completed", "failed"} =>
        /\ \A i \in 1..Len(submit.local_omex_path) :
               submit.local_omex_path[i] \notin local_files
        /\ submit.downloaded \cap local_files = {}

\* C24 for the execution that returns: the file it downloaded is removed.
C24_ReturnRemovesLocalCopy ==
    submit.pc = "completed" =>
        /\ Len(submit.local_omex_path) = 1
        /\ submit.local_omex_path[1] \notin local_files

(* ---------------------------------------------------------------------- *)
(* Status endpoint: failures of the query: C25                             *)
(* ---------------------------------------------------------------------- *)
\* What the caller of the status endpoint receives.
Received(response) == <<response.http, response.body, response.detail>>

\* C25 as stated: a response to a request whose query failed has status 404
\* and no state object, and the caller receives the same whatever made the
\* query fail: workflow not known, timeout, substrate out of reach.
C25_QueryFailuresIndistinguishable ==
    (status_response # <<>> /\ status_response[1].query.kind = "raise") =>
        /\ status_response[1].http = 404
        /\ status_response[1].body = <<>>
        /\ \A e \in QueryErrors :
               Received(get_verify_output(status_response[1].workflow_id,
                                          [kind |-> "raise", value |-> <<>>, error |-> e]))
                 = Received(status_response[1])

\* C25, amended: a response to a request whose query failed has status 404
\* whatever made the query fail, and no state object; the responses to
\* failures of different causes differ in nothing but the text of the detail,
\* which is the fixed text with the workflow id followed by the message of
\* the exception. A state object is returned only with status 200, and is
\* then the state the query returned.
C25_QueryFailureIs404WithoutState ==
    status_response # <<>> =>
        LET response == status_response[1]
        IN  /\ response.query.kind = "raise" =>
                  /\ response.http = 404
                  /\ response.body = <<>>
                  /\ response.detail =
                       <<"error retrieving verification job output with id: ",
                         response.workflow_id, ": ", response.query.error.message>>
            /\ response.query.kind = "return" =>
                  /\ response.http = 200
                  /\ response.body = response.query.value
                  /\ response.body[1] \in held
            /\ response.body # <<>> => response.query.kind = "return"

\* C25 witness: the query of the running verification timed out and the
\* caller got 404 without state.
C25_Witness ==
    /\ status_response # <<>>
    /\ status_response[1].workflow_id = KnownWorkflowId
    /\ status_response[1].query.kind = "raise"
    /\ status_response[1].query.error.message = "timeout expired"
    /\ verification.status = "RUNNING"
    /\ status_response[1].http = 404
    /\ status_response[1].body = <<>>

====
